---- MODULE Spec2Model ----
(***************************************************************************)
(* A model of the LivingMemory plugin (astrbot_plugin_livingmemory):       *)
(*   - ForgettingAgent       core/engines/forgetting_agent.py              *)
(*   - SessionManager        main.py                                       *)
(*   - FusionHandler         core/handlers/fusion_handler.py               *)
(*   - FaissManager          storage/faiss_manager.py                      *)
(*   - reflection task       main.py, core/engines/reflection_engine.py,   *)
(*                           core/utils.py (retry_on_failure)              *)
(*   - message hooks         main.py                                       *)
(*   - prune pass            core/engines/forgetting_agent.py              *)
(*   - RecallEngine          core/engines/recall_engine.py                 *)
(*   - ResultFusion          core/retrieval/result_fusion.py               *)
(*   - SparseRetriever       core/retrieval/sparse_retriever.py            *)
(*   - start-up, search_mode main.py, core/config_validator.py             *)
(*   - MemoryHandler         core/handlers/memory_handler.py               *)
(* Each component has its own specification (SpecForget, SpecSession,      *)
(* SpecSessionUse, SpecFusion, SpecStore, SpecRetry, SpecPlugin,           *)
(* SpecPrune, SpecRecall, SpecMeta, SpecFuse, SpecHybrid, SpecStartup,     *)
(* SpecEdit, SpecSparse) over the shared variable list; a component's      *)
(* actions leave the other components' variables unchanged.                *)
(***************************************************************************)
EXTENDS Naturals, Integers, Sequences, FiniteSets, TLC

VARIABLES
    \* ---- ForgettingAgent ----
    opLock,        \* holder of _operation_lock ("none" or a task)
    lockQueue,     \* FIFO of tasks waiting in _operation_lock.acquire()
    manualTask,    \* self._manual_task
    periodicTask,  \* self._task: "None" | "alive" | "done"
    loopTasks,     \* _run_periodically tasks: how many were made, how many ended
    fpc,           \* per task: where the coroutine is suspended
    phase,         \* per task: suspension point inside _prune_memories
    fresult,       \* per manual caller: response of the current/last call
    overlapped,    \* per manual caller: another manual run was in flight at call time
    pruned,        \* per manual caller: the current/last call entered _prune_memories
    \* ---- SessionManager ----
    sessions,      \* self._sessions: session id -> [history, round_count]
    accessTimes,   \* self._access_times: session id -> time of last touch
    sessOrder,     \* insertion order of the keys of self._access_times
    now,           \* time.time()
    \* ---- FusionHandler ----
    fusionCfg,     \* self.config["fusion"]
    fuser,         \* recall_engine.result_fusion: strategy and parameters
    lastCmd,       \* the last `fusion` command: [strategy, key, value]
    lastResponse,  \* its response: "none" | "ok" | "rejected"
    \* ---- FaissManager ----
    db,            \* documents table as the connection sees it: id -> row
    dbCommitted,   \* documents table as of the last commit
    txnOpen,       \* a transaction is open on the connection
    index,         \* the Faiss index in memory: id -> vector
    indexDisk,     \* the index file written by save_index()
    nextId,        \* next AUTOINCREMENT id
    op,            \* the operation in flight or, when pc = "idle", the last one
    pre,           \* db and index when that operation was called
    opsStarted,    \* operations called so far
    fts,           \* the FTS5 table as the connection sees it: doc_id -> content
    ftsCommitted,  \* the FTS5 table as of the last commit
    found,         \* the last search since the last operation was called
    purged,        \* ids removed by delete_memories calls that returned
    \* ---- retry_on_failure callers (main.py hooks) ----
    calls,         \* per hook invocation: its retry_on_failure call
    terminated,    \* terminate() has returned
    \* ---- LivingMemoryPlugin hooks ----
    initialization_task,      \* self._initialization_task: "running" | "done" | "cancelled"
    initialization_complete,  \* self._initialization_complete
    hooks,         \* per hook invocation: kind, position, session, snapshot
    launched,      \* the reflection tasks made by create_task, in order
    resets,        \* snapshots taken (and sessions reset) by post-LLM hooks
    hooksStarted,  \* hook invocations so far
    turnNo,        \* turns appended to histories by the hooks so far
    \* ---- one prune run over the stored records ----
    mem,           \* documents' metadata: id -> importance, create_time
    today,         \* the clock, in days
    run,           \* the _prune_memories call: position and local variables
    before,        \* mem when the run began
    nextMem,       \* next id the documents table issues
    runs,          \* prune runs begun so far
    edits,         \* importance edits made so far
    \* ---- one recall at a time over the stored records ----
    last_access_time,  \* documents' metadata: id -> last_access_time
    wall,          \* time.time()
    search,        \* the recall() call: position, mode, hits and result
    \* ---- writers of one record's metadata ----
    metaRow,       \* the record's metadata column: importance, last_access_time
    writers,       \* per writer: kind, position, the metadata it holds
    stampNext,     \* time.time() of the next access-time update
    \* ---- ResultFusion.fuse ----
    lastFuse,      \* the last fuse call: its arguments and what came of it
    \* ---- RecallEngine._hybrid_search ----
    hybrid,        \* the last hybrid recall: its two searches and its result
    \* ---- LivingMemoryPlugin start-up and the search_mode command ----
    startup,       \* how far start-up has come, the configuration in use,
                   \* the recall engine's retrieval_mode and sparse retriever
    modeCmd,       \* the last search_mode command and its reply
    lastRun,       \* the recall made since that command: the path it took
    \* ---- MemoryHandler.edit_memory / the edit command ----
    edited,        \* the record the edits are aimed at: content and metadata
    lastEdit,      \* the last edit: field, value, reply, update_memory called
    \* ---- SparseRetriever.search ----
    sparseRun      \* the last sparse search: the index, the limit, the results

forgetVars == <<opLock, lockQueue, manualTask, periodicTask, loopTasks, fpc, phase,
                fresult, overlapped, pruned>>

sessionVars == <<sessions, accessTimes, sessOrder, now>>

fusionVars == <<fusionCfg, fuser, lastCmd, lastResponse>>

storeVars == <<db, dbCommitted, txnOpen, index, indexDisk, nextId, op, pre,
               opsStarted, fts, ftsCommitted, found, purged>>

retryVars == <<calls, terminated>>

pluginVars == <<initialization_task, initialization_complete, hooks, launched,
                resets, hooksStarted, turnNo>>

pruneVars == <<mem, today, run, before, nextMem, runs, edits>>

recallVars == <<last_access_time, wall, search>>

metaVars == <<metaRow, writers, stampNext>>

fuseVars == <<lastFuse>>

hybridVars == <<hybrid>>

startupVars == <<startup, modeCmd, lastRun>>

editVars == <<edited, lastEdit>>

sparseVars == <<sparseRun>>

vars == <<forgetVars, sessionVars, fusionVars, storeVars, retryVars,
          pluginVars, pruneVars, recallVars, metaVars, fuseVars,
          hybridVars, startupVars, editVars, sparseVars>>

\* What each component's actions leave alone: the other components (the
\* hooks use the session manager, fuse the fuser).
notForget == <<sessionVars, fusionVars, storeVars, retryVars, pluginVars,
               pruneVars, recallVars, metaVars, fuseVars, hybridVars,
               startupVars, editVars, sparseVars>>

notSession == <<forgetVars, fusionVars, storeVars, retryVars, pluginVars,
                pruneVars, recallVars, metaVars, fuseVars, hybridVars,
                startupVars, editVars, sparseVars>>

notFusion == <<forgetVars, sessionVars, storeVars, retryVars, pluginVars,
               pruneVars, recallVars, metaVars, fuseVars, hybridVars,
               startupVars, editVars, sparseVars>>

notStore == <<forgetVars, sessionVars, fusionVars, retryVars, pluginVars,
              pruneVars, recallVars, metaVars, fuseVars, hybridVars,
              startupVars, editVars, sparseVars>>

notRetry == <<forgetVars, sessionVars, fusionVars, storeVars, pluginVars,
              pruneVars, recallVars, metaVars, fuseVars, hybridVars,
              startupVars, editVars, sparseVars>>

notPlugin == <<forgetVars, fusionVars, storeVars, retryVars, pruneVars,
               recallVars, metaVars, fuseVars, hybridVars, startupVars,
               editVars, sparseVars>>

notPrune == <<forgetVars, sessionVars, fusionVars, storeVars, retryVars,
              pluginVars, recallVars, metaVars, fuseVars, hybridVars,
              startupVars, editVars, sparseVars>>

notRecall == <<forgetVars, sessionVars, fusionVars, storeVars, retryVars,
               pluginVars, pruneVars, metaVars, fuseVars, hybridVars,
               startupVars, editVars, sparseVars>>

notMeta == <<forgetVars, sessionVars, fusionVars, storeVars, retryVars,
             pluginVars, pruneVars, recallVars, fuseVars, hybridVars,
             startupVars, editVars, sparseVars>>

notFuse == <<forgetVars, sessionVars, storeVars, retryVars, pluginVars,
             pruneVars, recallVars, metaVars, hybridVars, startupVars,
             editVars, sparseVars>>

notHybrid == <<forgetVars, sessionVars, storeVars, retryVars, pluginVars,
               pruneVars, recallVars, metaVars, fuseVars, startupVars,
               editVars, sparseVars>>

notStartup == <<forgetVars, sessionVars, fusionVars, storeVars, retryVars,
                pluginVars, pruneVars, recallVars, metaVars, fuseVars,
                hybridVars, editVars, sparseVars>>

notEdit == <<forgetVars, sessionVars, fusionVars, storeVars, retryVars,
             pluginVars, pruneVars, recallVars, metaVars, fuseVars,
             hybridVars, startupVars, sparseVars>>

notSparse == <<forgetVars, sessionVars, fusionVars, storeVars, retryVars,
               pluginVars, pruneVars, recallVars, metaVars, fuseVars,
               hybridVars, startupVars, editVars>>

(***************************************************************************)
(*                            ForgettingAgent                              *)
(***************************************************************************)

Manual == {"m1", "m2"}        \* tasks that call trigger_manual_run
Admin == "adm"                \* the task of the run_forgetting_agent command
Periodic == "per"             \* the task created by start()
Tasks == Manual \cup {Admin, Periodic}

\* The awaits of _prune_memories, in order.
PrunePhases == {"count", "page", "update", "delete"}

InPrune(t) == phase[t] # "none"

\* A busy check that stays true once a manual run has started a prune: the
\* variant of ManualTaskRunning that C28 has to tell apart from the code.
BusyFlagStuck == \E t \in Manual : pruned[t]

\* forgetting_agent.py:82  `self._manual_task and not self._manual_task.done()`
ManualTaskRunning == manualTask # "None" /\ manualTask # "done"

\* asyncio.Lock.release(): the lock goes to the first waiter, if any.
LockAfterRelease == IF lockQueue = <<>> THEN "none" ELSE Head(lockQueue)

QueueAfterRelease == IF lockQueue = <<>> THEN <<>> ELSE Tail(lockQueue)

RemoveFromQueue(q, t) == SelectSeq(q, LAMBDA u : u # t)

InitForget ==
    /\ opLock = "none"
    /\ lockQueue = <<>>
    /\ manualTask = "None"
    /\ periodicTask = "None"
    /\ loopTasks = [made |-> 0, ended |-> 0]
    /\ fpc = [t \in Tasks |-> IF t = Periodic THEN "none" ELSE "idle"]
    /\ phase = [t \in Tasks |-> "none"]
    /\ fresult = [t \in Manual |-> "none"]
    /\ overlapped = [t \in Manual |-> FALSE]
    /\ pruned = [t \in Manual |-> FALSE]

\* The body of `async with self._operation_lock:` once the lock is held by t:
\* the busy check, then the call of _prune_memories up to its first await.
EnterLocked(t, holder, queue) ==
    IF ManualTaskRunning
    THEN /\ fresult' = [fresult EXCEPT ![t] = "busy"]
         /\ fpc' = [fpc EXCEPT ![t] = "idle"]
         /\ phase' = phase
         /\ pruned' = [pruned EXCEPT ![t] = FALSE]
         \* __aexit__ releases the lock
         /\ opLock' = IF queue = <<>> THEN "none" ELSE Head(queue)
         /\ lockQueue' = IF queue = <<>> THEN <<>> ELSE Tail(queue)
    ELSE /\ fresult' = [fresult EXCEPT ![t] = "none"]
         /\ fpc' = [fpc EXCEPT ![t] = "locked"]
         /\ phase' = [phase EXCEPT ![t] = "count"]
         /\ pruned' = [pruned EXCEPT ![t] = TRUE]
         /\ opLock' = holder
         /\ lockQueue' = queue

\* trigger_manual_run is called by task t.
TriggerManualRun(t) ==
    /\ t \in Manual
    /\ fpc[t] = "idle"
    /\ overlapped' = [overlapped EXCEPT
                        ![t] = \E u \in Manual \ {t} : InPrune(u)]
    /\ IF opLock = "none" /\ lockQueue = <<>>
       THEN EnterLocked(t, t, <<>>)
       ELSE /\ lockQueue' = Append(lockQueue, t)
            /\ fpc' = [fpc EXCEPT ![t] = "waitlock"]
            /\ fresult' = [fresult EXCEPT ![t] = "none"]
            /\ pruned' = [pruned EXCEPT ![t] = FALSE]
            /\ UNCHANGED <<opLock, phase>>
    /\ UNCHANGED <<manualTask, periodicTask, loopTasks>>
    /\ UNCHANGED notForget

\* A waiter that has been handed the lock resumes inside the `async with`.
ManualResume(t) ==
    /\ t \in Manual
    /\ fpc[t] = "waitlock"
    /\ opLock = t
    /\ EnterLocked(t, t, lockQueue)
    /\ UNCHANGED <<manualTask, periodicTask, loopTasks, overlapped>>
    /\ UNCHANGED notForget

\* _prune_memories returns to its caller t (normally: it swallows every
\* Exception itself, forgetting_agent.py:264).
PruneReturns(t) ==
    /\ phase' = [phase EXCEPT ![t] = "none"]
    /\ IF t \in Manual
       THEN /\ fresult' = [fresult EXCEPT ![t] = "success"]
            /\ fpc' = [fpc EXCEPT ![t] = "idle"]
            /\ opLock' = LockAfterRelease
            /\ lockQueue' = QueueAfterRelease
       ELSE /\ fpc' = [fpc EXCEPT ![t] = IF t = Periodic THEN "sleep" ELSE "idle"]
            /\ UNCHANGED <<fresult, opLock, lockQueue>>

\* await count_total_memories(): nothing stored returns at once.
PruneCount(t) ==
    /\ phase[t] = "count"
    /\ \E empty \in BOOLEAN :
          IF empty
          THEN PruneReturns(t)
          ELSE /\ phase' = [phase EXCEPT ![t] = "page"]
               /\ UNCHANGED <<fpc, fresult, opLock, lockQueue>>
    /\ UNCHANGED <<manualTask, periodicTask, loopTasks, overlapped, pruned>>
    /\ UNCHANGED notForget

\* await get_memories_paginated(): another page, or the scan is over and the
\* pass goes on to what it collected (updates, deletions, or nothing).
PrunePage(t) ==
    /\ phase[t] = "page"
    /\ \E next \in {"page", "update", "delete", "return"} :
          IF next = "return"
          THEN PruneReturns(t)
          ELSE /\ phase' = [phase EXCEPT ![t] = next]
               /\ UNCHANGED <<fpc, fresult, opLock, lockQueue>>
    /\ UNCHANGED <<manualTask, periodicTask, loopTasks, overlapped, pruned>>
    /\ UNCHANGED notForget

\* await update_memories_metadata(): then deletions, if any were marked.
PruneUpdate(t) ==
    /\ phase[t] = "update"
    /\ \E anyDelete \in BOOLEAN :
          IF anyDelete
          THEN /\ phase' = [phase EXCEPT ![t] = "delete"]
               /\ UNCHANGED <<fpc, fresult, opLock, lockQueue>>
          ELSE PruneReturns(t)
    /\ UNCHANGED <<manualTask, periodicTask, loopTasks, overlapped, pruned>>
    /\ UNCHANGED notForget

\* await delete_memories(batch): another batch, or the pass is over.
PruneDelete(t) ==
    /\ phase[t] = "delete"
    /\ \E more \in BOOLEAN :
          IF more
          THEN UNCHANGED <<phase, fpc, fresult, opLock, lockQueue>>
          ELSE PruneReturns(t)
    /\ UNCHANGED <<manualTask, periodicTask, loopTasks, overlapped, pruned>>
    /\ UNCHANGED notForget

\* The task running trigger_manual_run is cancelled at a suspension point:
\* CancelledError leaves the `async with`, which releases the lock; a waiter
\* leaves the queue.
ManualCancel(t) ==
    /\ t \in Manual
    /\ fpc[t] \in {"waitlock", "locked"}
    /\ fpc' = [fpc EXCEPT ![t] = "idle"]
    /\ phase' = [phase EXCEPT ![t] = "none"]
    /\ fresult' = [fresult EXCEPT ![t] = "cancelled"]
    /\ IF opLock = t
       THEN /\ opLock' = LockAfterRelease
            /\ lockQueue' = QueueAfterRelease
       ELSE /\ opLock' = opLock
            /\ lockQueue' = RemoveFromQueue(lockQueue, t)
    /\ UNCHANGED <<manualTask, periodicTask, loopTasks, overlapped, pruned>>
    /\ UNCHANGED notForget

\* main.py:506 and admin_handler.py:58 call _prune_memories directly.
RunForgettingAgent ==
    /\ fpc[Admin] = "idle"
    /\ fpc' = [fpc EXCEPT ![Admin] = "pruning"]
    /\ phase' = [phase EXCEPT ![Admin] = "count"]
    /\ UNCHANGED <<opLock, lockQueue, manualTask, periodicTask, loopTasks, fresult,
                   overlapped, pruned>>
    /\ UNCHANGED notForget

MaxStarts == 2                \* loop tasks made in one run

\* A start() that makes a task whatever self._task holds: the variant of
\* StartGuard that C39 has to tell apart from the code.
StartUnguarded == TRUE

\* forgetting_agent.py:60  if self._task is None or self._task.done()
StartGuard == periodicTask \in {"None", "done"}

\* forgetting_agent.py:54-62  start(): creates the loop task unless one is
\* alive; with one alive it does nothing.
Start ==
    /\ loopTasks.made < MaxStarts
    /\ IF StartGuard
       THEN /\ periodicTask' = "alive"
            /\ loopTasks' = [loopTasks EXCEPT !.made = @ + 1]
            /\ fpc' = [fpc EXCEPT ![Periodic] = "sleep"]
            /\ phase' = [phase EXCEPT ![Periodic] = "none"]
       ELSE UNCHANGED <<periodicTask, loopTasks, fpc, phase>>
    /\ UNCHANGED <<opLock, lockQueue, manualTask, fresult, overlapped, pruned>>
    /\ UNCHANGED notForget

\* _run_periodically: the sleep is over, the loop calls _prune_memories.
PeriodicWake ==
    /\ fpc[Periodic] = "sleep"
    /\ fpc' = [fpc EXCEPT ![Periodic] = "pruning"]
    /\ phase' = [phase EXCEPT ![Periodic] = "count"]
    /\ UNCHANGED <<opLock, lockQueue, manualTask, periodicTask, loopTasks, fresult,
                   overlapped, pruned>>
    /\ UNCHANGED notForget

\* forgetting_agent.py:64-72  stop(): cancels the loop task, which takes the
\* CancelledError at its suspension point (the sleep, or an await inside
\* _prune_memories, whose handlers catch Exception only) and leaves the loop
\* at lines 117-119; stop() awaits it and sets self._task = None.  With no
\* task alive it only sets self._task = None.
Stop ==
    /\ periodicTask' = "None"
    /\ IF periodicTask = "alive"
       THEN /\ loopTasks' = [loopTasks EXCEPT !.ended = @ + 1]
            /\ fpc' = [fpc EXCEPT ![Periodic] = "none"]
            /\ phase' = [phase EXCEPT ![Periodic] = "none"]
       ELSE UNCHANGED <<loopTasks, fpc, phase>>
    /\ UNCHANGED <<opLock, lockQueue, manualTask, fresult, overlapped, pruned>>
    /\ UNCHANGED notForget

NextForget ==
    \/ \E t \in Manual : TriggerManualRun(t)
    \/ \E t \in Manual : ManualResume(t)
    \/ \E t \in Tasks : PruneCount(t)
    \/ \E t \in Tasks : PrunePage(t)
    \/ \E t \in Tasks : PruneUpdate(t)
    \/ \E t \in Tasks : PruneDelete(t)
    \/ \E t \in Manual : ManualCancel(t)
    \/ RunForgettingAgent
    \/ Start
    \/ PeriodicWake
    \/ Stop

(***************************************************************************)
(*                             SessionManager                              *)
(***************************************************************************)

SessionIds == {"s1", "s2", "s3"}
MaxSessions == 2     \* max_sessions (1000 by default), scaled down
SessionTtl == 2      \* session_ttl in clock ticks (3600 s by default)
MaxTime == 5         \* the clock stops here

NewSession == [history |-> <<>>, round_count |-> 0]

InitSession ==
    /\ sessions = <<>>
    /\ accessTimes = <<>>
    /\ sessOrder = <<>>
    /\ now = 0

\* f without the keys in gone
Without(f, gone) == [k \in (DOMAIN f) \ gone |-> f[k]]

\* f with key k set to v (a new key is added)
With(f, k, v) == [j \in (DOMAIN f) \cup {k} |-> IF j = k THEN v ELSE f[j]]

SeqWithout(q, gone) == SelectSeq(q, LAMBDA u : u \notin gone)

\* main.py:66-68: the sessions whose last access is older than session_ttl
Expired(times, t) == {s \in DOMAIN times : t - times[s] > SessionTtl}

\* The first n entries of sorted(self._access_times.items(), key=time): the
\* sort is stable, so ties keep the dictionary's insertion order.
RECURSIVE Oldest(_, _, _)
Oldest(times, order, n) ==
    IF n = 0 \/ order = <<>>
    THEN {}
    ELSE LET i == CHOOSE i \in 1..Len(order) :
                    \A j \in 1..Len(order) :
                        \/ times[order[i]] < times[order[j]]
                        \/ (times[order[i]] = times[order[j]] /\ i <= j)
             s == order[i]
         IN {s} \cup Oldest(times, SeqWithout(order, {s}), n - 1)

\* _cleanup_expired_sessions(current_time): the keys that are removed.
CleanupRemoves(sess, times, order, t) ==
    LET expired == Expired(times, t)
        left == (DOMAIN sess) \ expired
        over == IF Cardinality(left) > MaxSessions
                THEN Oldest(Without(times, expired), SeqWithout(order, expired),
                            Cardinality(left) - MaxSessions)
                ELSE {}
    IN expired \cup over

\* get_session(session_id): self._sessions when it returns
SessionsAfterGet(s) ==
    LET removed == CleanupRemoves(sessions, accessTimes, sessOrder, now)
        kept == Without(sessions, removed)
    IN IF s \in DOMAIN kept THEN kept ELSE With(kept, s, NewSession)

\* get_session(session_id): self._access_times when it returns
TimesAfterGet(s) ==
    LET removed == CleanupRemoves(sessions, accessTimes, sessOrder, now)
    IN With(Without(accessTimes, removed), s, now)

\* get_session(session_id): the insertion order of the dictionaries
OrderAfterGet(s) ==
    LET removed == CleanupRemoves(sessions, accessTimes, sessOrder, now)
        order == SeqWithout(sessOrder, removed)
    IN IF s \in (DOMAIN sessions) \ removed THEN order ELSE Append(order, s)

\* get_session(session_id)
GetSession(s) ==
    /\ sessions' = SessionsAfterGet(s)
    /\ accessTimes' = TimesAfterGet(s)
    /\ sessOrder' = OrderAfterGet(s)
    /\ now' = now
    /\ UNCHANGED notSession

\* reset_session(session_id)
ResetSession(s) ==
    /\ IF s \in DOMAIN sessions
       THEN /\ sessions' = [sessions EXCEPT ![s] = NewSession]
            /\ accessTimes' = [accessTimes EXCEPT ![s] = now]
       ELSE UNCHANGED <<sessions, accessTimes>>
    /\ UNCHANGED <<sessOrder, now>>
    /\ UNCHANGED notSession

\* time passes
Tick ==
    /\ now < MaxTime
    /\ now' = now + 1
    /\ UNCHANGED <<sessions, accessTimes, sessOrder>>
    /\ UNCHANGED notSession

NextSession ==
    \/ \E s \in SessionIds : GetSession(s)
    \/ \E s \in SessionIds : ResetSession(s)
    \/ Tick

\* C3: after any sequence of get_session and reset_session calls the manager
\* holds at most max_sessions sessions.
C3_SessionBound == Cardinality(DOMAIN sessions) <= MaxSessions

MaxTurns == 2        \* turns kept in one history

\* main.py:313-317  the caller of get_session appends a turn to the history
\* of the session it was handed.
AppendTurn(s) ==
    /\ Len(SessionsAfterGet(s)[s].history) < MaxTurns
    /\ sessions' = [SessionsAfterGet(s) EXCEPT ![s].history = Append(@, "user")]
    /\ accessTimes' = TimesAfterGet(s)
    /\ sessOrder' = OrderAfterGet(s)
    /\ now' = now
    /\ UNCHANGED notSession

NextSessionUse ==
    \/ NextSession
    \/ \E s \in SessionIds : AppendTurn(s)

(***************************************************************************)
(*                              FusionHandler                              *)
(* Weights and ratios are counted in tenths: 7 is 0.7.                     *)
(***************************************************************************)

\* fusion_handler.py:43-44
Strategies == {"rrf", "hybrid_rrf", "weighted", "convex", "interleave",
               "rank_fusion", "score_fusion", "cascade", "adaptive"}

\* fusion_handler.py:125-128
valid_params == {"dense_weight", "sparse_weight", "rrf_k", "convex_lambda",
                 "interleave_ratio", "rank_bias_factor", "diversity_bonus"}

\* fusion_handler.py:135  the keys parsed with float(); rrf_k is parsed with int()
FloatKeys == {"dense_weight", "sparse_weight", "convex_lambda",
              "interleave_ratio", "rank_bias_factor", "diversity_bonus"}

\* fusion_handler.py:159-169
strategy_params ==
    [st \in Strategies |->
        CASE st = "rrf" -> {"rrf_k"}
          [] st = "hybrid_rrf" -> {"rrf_k", "diversity_bonus"}
          [] st = "weighted" -> {"dense_weight", "sparse_weight"}
          [] st = "convex" -> {"dense_weight", "sparse_weight", "convex_lambda"}
          [] st = "interleave" -> {"interleave_ratio"}
          [] st = "rank_fusion" -> {"dense_weight", "sparse_weight", "rank_bias_factor"}
          [] st = "score_fusion" -> {"dense_weight", "sparse_weight"}
          [] st = "cascade" -> {"dense_weight", "sparse_weight"}
          [] st = "adaptive" -> {"dense_weight", "sparse_weight"}]

\* The text after "=": a decimal such as "0.7" (n tenths), an integer such as
\* "60", or text that is no number.
ValueTokens == {[kind |-> "dec", n |-> 4], [kind |-> "dec", n |-> 7],
                [kind |-> "dec", n |-> 15], [kind |-> "dec", n |-> -1],
                [kind |-> "int", n |-> 60], [kind |-> "nan", n |-> 0]}

\* The commands tried: strategy words, and `key=value` or no parameter.
StrategyWords == {"show", "bogus", "rrf", "weighted", "interleave"}
KeyWords == {"dense_weight", "sparse_weight", "rrf_k", "interleave_ratio",
             "invalid_param"}
NoParam == [strategy : StrategyWords, key : {""}, value : {[kind |-> "nan", n |-> 0]}]
Commands == [strategy : StrategyWords, key : KeyWords, value : ValueTokens]
              \cup NoParam

\* float(value) succeeds on a decimal or an integer text
FloatParses(v) == v.kind \in {"dec", "int"}

\* float(value), in tenths
ParseFloat(v) == IF v.kind = "int" THEN v.n * 10 ELSE v.n

\* int(value) succeeds on an integer text only
IntParses(v) == v.kind = "int"

\* int(value)
ParseInt(v) == v.n

\* fusion_handler.py:134-140: no ValueError is raised
ValueParses(key, v) == IF key \in FloatKeys THEN FloatParses(v) ELSE IntParses(v)

\* fusion_handler.py:134-138
ParamValue(key, v) == IF key \in FloatKeys THEN ParseFloat(v) ELSE ParseInt(v)

\* A range check that lets every value through: the variant of InRange that
\* C31 has to tell apart from the code.
AnyRange(key, x) == TRUE

\* fusion_handler.py:143-156  min_val <= param_value <= max_val
InRange(key, x) == IF key = "rrf_k" THEN 1 <= x /\ x <= 1000
                   ELSE 0 <= x /\ x <= 10

OtherWeight(key) == IF key = "dense_weight" THEN "sparse_weight" ELSE "dense_weight"

\* fusion_handler.py:180  `key + other_key in [k for k in
\* strategy_params.get(strategy, []) if k in ["dense_weight", "sparse_weight"]]`
SumCheckApplies(key, strategy) ==
    (key \o OtherWeight(key)) \in
        {k \in (IF strategy \in Strategies THEN strategy_params[strategy] ELSE {}) :
            k \in {"dense_weight", "sparse_weight"}}

\* fusion_handler.py:175-183: the weight-sum check rejects
WeightSumRejects(key, x, strategy, cfg) ==
    /\ key \in {"dense_weight", "sparse_weight"}
    /\ SumCheckApplies(key, strategy)
    /\ x + cfg[OtherWeight(key)] > 10

\* _process_fusion_param(param, strategy) on configuration cfg:
\* [ok, cfg] with the configuration it leaves.
ProcessFusionParam(cmd, cfg) ==
    LET key == cmd.key
        x == ParamValue(key, cmd.value)
    IN CASE key = "" -> [ok |-> TRUE, cfg |-> cfg]
         [] key # "" /\ key \notin valid_params -> [ok |-> FALSE, cfg |-> cfg]
         [] key \in valid_params /\ ~ValueParses(key, cmd.value)
                -> [ok |-> FALSE, cfg |-> cfg]
         [] OTHER ->
              IF \/ ~InRange(key, x)
                 \/ (cmd.strategy \in Strategies
                        /\ key \notin strategy_params[cmd.strategy])
                 \/ WeightSumRejects(key, x, cmd.strategy, cfg)
              THEN [ok |-> FALSE, cfg |-> cfg]
              ELSE [ok |-> TRUE, cfg |-> [cfg EXCEPT ![key] = x]]

\* _update_recall_engine_fusion_config: RecallEngine has no
\* update_fusion_config, so the attributes are set one by one (lines 205-216).
SyncedFuser(strategy, cfg) ==
    [strategy |-> strategy,
     dense_weight |-> cfg["dense_weight"],
     sparse_weight |-> cfg["sparse_weight"],
     rrf_k |-> cfg["rrf_k"],
     convex_lambda |-> cfg["convex_lambda"],
     interleave_ratio |-> cfg["interleave_ratio"],
     rank_bias_factor |-> cfg["rank_bias_factor"]]

\* config_validator.py:42-59  FusionConfig defaults
DefaultFusion ==
    [strategy |-> "rrf", rrf_k |-> 60, dense_weight |-> 7, sparse_weight |-> 3,
     convex_lambda |-> 5, interleave_ratio |-> 5, rank_bias_factor |-> 1,
     diversity_bonus |-> 1]

InitFusion ==
    /\ fusionCfg = DefaultFusion
    /\ fuser = SyncedFuser(DefaultFusion["strategy"], DefaultFusion)
    /\ lastCmd = [strategy |-> "show", key |-> "", value |-> [kind |-> "nan", n |-> 0]]
    /\ lastResponse = "none"

\* manage_fusion_strategy(strategy, param)
ManageFusionStrategy(cmd) ==
    /\ lastCmd' = cmd
    /\ IF cmd.strategy = "show"
       THEN /\ lastResponse' = "ok"
            /\ UNCHANGED <<fusionCfg, fuser>>
       ELSE IF cmd.strategy \in Strategies
       THEN LET switched == [fusionCfg EXCEPT !["strategy"] = cmd.strategy]
                r == ProcessFusionParam(cmd, switched)
            IN /\ fusionCfg' = r.cfg
               /\ IF r.ok
                  THEN /\ fuser' = SyncedFuser(cmd.strategy, r.cfg)
                       /\ lastResponse' = "ok"
                  ELSE /\ fuser' = fuser
                       /\ lastResponse' = "rejected"
       ELSE /\ lastResponse' = "rejected"
            /\ UNCHANGED <<fusionCfg, fuser>>
    /\ UNCHANGED notFusion

NextFusion == \E cmd \in Commands : ManageFusionStrategy(cmd)

\* The last command set a weight for a strategy that uses both weights.
SetsWeight ==
    /\ lastCmd.key \in {"dense_weight", "sparse_weight"}
    /\ lastCmd.strategy \in Strategies
    /\ {"dense_weight", "sparse_weight"} \subseteq strategy_params[lastCmd.strategy]
    /\ FloatParses(lastCmd.value)

\* C4: a command that sets one weight is rejected whenever the new value plus
\* the other weight's configured value exceeds 1.0, and accepted when the sum
\* is exactly 1.0.
C4_WeightSumEnforced ==
    SetsWeight =>
        LET sum == ParseFloat(lastCmd.value) + fusionCfg[OtherWeight(lastCmd.key)]
        IN /\ sum > 10 => lastResponse = "rejected"
           /\ (sum = 10 /\ InRange(lastCmd.key, ParseFloat(lastCmd.value)))
                 => lastResponse = "ok"

\* C5: a rejected fusion command leaves the fusion configuration (strategy
\* and every parameter) exactly as it was before the command.
C5_RejectedLeavesConfig ==
    [][lastResponse' = "rejected" => fusionCfg' = fusionCfg]_vars

(***************************************************************************)
(*                               FaissManager                              *)
(* One operation is in flight at a time.  Each action is the stretch of    *)
(* the coroutine that ends its current await; `fail` says whether that     *)
(* awaited call (or the synchronous Faiss call after it) raises.           *)
(***************************************************************************)

MaxId == 2           \* ids issued by the documents table: 1..MaxId
MaxOps == 3          \* operations called in one run
Ids == 1..MaxId
Contents == {"a", "b"}
Importances == {0, 1}
NoContent == "none"  \* content=None
NoImportance == -1   \* importance=None

\* embed_query(content): the embedder is deterministic
Embed(content) == content

Row(text, importance, hist) ==
    [text |-> text, importance |-> importance, hist |-> hist]

\* no search has returned yet
NoFound == [called |-> FALSE, mode |-> "none", ids |-> {}]

\* sparse_retriever.py:58-66  trigger documents_ai: the inserted row is
\* indexed
AfterInsert(rows, id, text) == With(rows, id, text)

\* sparse_retriever.py:68-74  trigger documents_ad: the rows of the deleted
\* documents leave the FTS5 table
AfterDelete(rows, ids) == Without(rows, ids)

\* sparse_retriever.py:76-84  trigger documents_au: the row of the updated
\* document is deleted and inserted again with the new text
AfterUpdate(rows, id, text) == With(Without(rows, {id}), id, text)

\* A DELETE statement that removes no row: the variant of DeleteRows that
\* C26 has to tell apart from the code.
DeleteNoRows(table, ids) == table

\* faiss_manager.py:328-330  DELETE FROM documents WHERE id IN (...)
DeleteRows(table, ids) == Without(table, ids)

IdleOp == [name |-> "none", pc |-> "idle", ids |-> {}, id |-> 0,
           content |-> NoContent, importance |-> NoImportance,
           outcome |-> "none", failedAt |-> "none", fields |-> <<>>]

InitStore ==
    /\ db = <<>>
    /\ dbCommitted = <<>>
    /\ txnOpen = FALSE
    /\ index = <<>>
    /\ indexDisk = <<>>
    /\ nextId = 1
    /\ op = IdleOp
    /\ pre = [db |-> <<>>, index |-> <<>>]
    /\ opsStarted = 0
    /\ fts = <<>>
    /\ ftsCommitted = <<>>
    /\ found = NoFound
    /\ purged = {}

CanCall == op.pc = "idle" /\ opsStarted < MaxOps

\* The operation ends: rolledBack says whether connection.rollback() ran.
Ends(outcome, failedAt, rolledBack) ==
    /\ op' = [op EXCEPT !.pc = "idle", !.outcome = outcome, !.failedAt = failedAt]
    /\ IF rolledBack
       THEN /\ db' = dbCommitted
            /\ fts' = ftsCommitted
            /\ txnOpen' = FALSE
       ELSE UNCHANGED <<db, txnOpen, fts>>

\* add_memory: self.db.insert() stores the row and its vector and commits.
AddMemory(content, importance) ==
    /\ CanCall
    /\ nextId <= MaxId
    /\ LET row == Row(content, importance, <<>>)
           newDb == With(db, nextId, row)
       IN /\ db' = newDb
          /\ dbCommitted' = newDb
          /\ index' = With(index, nextId, Embed(content))
          /\ indexDisk' = With(index, nextId, Embed(content))
          /\ pre' = [db |-> db, index |-> index]
    /\ fts' = AfterInsert(fts, nextId, content)
    /\ ftsCommitted' = AfterInsert(fts, nextId, content)
    /\ found' = NoFound
    /\ purged' = purged
    /\ txnOpen' = FALSE
    /\ nextId' = nextId + 1
    /\ op' = [IdleOp EXCEPT !.name = "add", !.id = nextId, !.content = content,
                            !.importance = importance, !.outcome = "ok"]
    /\ opsStarted' = opsStarted + 1
    /\ UNCHANGED notStore

\* delete_memories(doc_ids) up to `await execute("BEGIN")`, which is outside
\* the try: with a transaction already open it raises to the caller.
DeleteBegin(ids) ==
    /\ CanCall
    /\ ids # {}
    /\ opsStarted' = opsStarted + 1
    /\ pre' = [db |-> db, index |-> index]
    /\ IF txnOpen
       THEN /\ op' = [IdleOp EXCEPT !.name = "delete", !.ids = ids,
                                    !.outcome = "raised", !.failedAt = "begin"]
            /\ txnOpen' = txnOpen
       ELSE /\ op' = [IdleOp EXCEPT !.name = "delete", !.ids = ids, !.pc = "del_sql"]
            /\ txnOpen' = TRUE
    /\ found' = NoFound
    /\ UNCHANGED <<db, dbCommitted, index, indexDisk, nextId, fts, ftsCommitted,
                   purged>>
    /\ UNCHANGED notStore

\* faiss_manager.py:328-331  DELETE FROM documents WHERE id IN (...)
DeleteSql(fail) ==
    /\ op.pc = "del_sql"
    /\ IF fail
       THEN Ends("raised", "sql", TRUE)
       ELSE /\ db' = DeleteRows(db, op.ids)
            /\ fts' = AfterDelete(fts, DOMAIN db \ DOMAIN DeleteRows(db, op.ids))
            /\ op' = [op EXCEPT !.pc = "del_remove"]
            /\ txnOpen' = txnOpen
    /\ UNCHANGED <<dbCommitted, ftsCommitted, index, indexDisk, nextId, pre, opsStarted>>
    /\ UNCHANGED <<found, purged>>
    /\ UNCHANGED notStore

\* faiss_manager.py:335  index.remove_ids(...); on failure lines 338-342 and
\* then 348-365 roll the SQL delete back and raise.
DeleteRemove(fail) ==
    /\ op.pc = "del_remove"
    /\ IF fail
       THEN /\ Ends("raised", "remove", TRUE)
            /\ index' = index
       ELSE /\ index' = Without(index, op.ids)
            /\ op' = [op EXCEPT !.pc = "del_save"]
            /\ UNCHANGED <<db, txnOpen, fts>>
    /\ UNCHANGED <<dbCommitted, ftsCommitted, indexDisk, nextId, pre, opsStarted>>
    /\ UNCHANGED <<found, purged>>
    /\ UNCHANGED notStore

\* faiss_manager.py:336  await save_index(); on failure as for remove_ids.
DeleteSave(fail) ==
    /\ op.pc = "del_save"
    /\ IF fail
       THEN /\ Ends("raised", "save", TRUE)
            /\ indexDisk' = indexDisk
       ELSE /\ indexDisk' = index
            /\ op' = [op EXCEPT !.pc = "del_commit"]
            /\ UNCHANGED <<db, txnOpen, fts>>
    /\ UNCHANGED <<dbCommitted, ftsCommitted, index, nextId, pre, opsStarted>>
    /\ UNCHANGED <<found, purged>>
    /\ UNCHANGED notStore

\* faiss_manager.py:345  await commit(); on failure lines 358-365: no rollback
\* (both flags are set), a CRITICAL log, and RuntimeError.
DeleteCommit(fail) ==
    /\ op.pc = "del_commit"
    /\ IF fail
       THEN /\ Ends("raised", "commit", FALSE)
            /\ dbCommitted' = dbCommitted
            /\ ftsCommitted' = ftsCommitted
            /\ purged' = purged
       ELSE /\ dbCommitted' = db
            /\ db' = db
            /\ ftsCommitted' = fts
            /\ fts' = fts
            /\ txnOpen' = FALSE
            /\ op' = [op EXCEPT !.pc = "idle", !.outcome = "ok"]
            /\ purged' = purged \cup (op.ids \cap DOMAIN pre.db)
    /\ UNCHANGED <<index, indexDisk, nextId, pre, opsStarted>>
    /\ found' = found
    /\ UNCHANGED notStore

\* update_memory(memory_id, content, importance) up to `await
\* execute("BEGIN")`, which is outside the try.  event_type and status are
\* handled as importance is (lines 472-482) and are left out.
UpdateBegin(id, content, importance) ==
    /\ CanCall
    /\ opsStarted' = opsStarted + 1
    /\ pre' = [db |-> db, index |-> index]
    /\ LET call == [IdleOp EXCEPT !.name = "update", !.id = id,
                                  !.content = content, !.importance = importance]
       IN IF txnOpen
          THEN /\ op' = [call EXCEPT !.outcome = "raised", !.failedAt = "begin"]
               /\ txnOpen' = txnOpen
          ELSE /\ op' = [call EXCEPT !.pc = "upd_get"]
               /\ txnOpen' = TRUE
    /\ found' = NoFound
    /\ UNCHANGED <<db, dbCommitted, index, indexDisk, nextId, fts, ftsCommitted,
                   purged>>
    /\ UNCHANGED notStore

\* faiss_manager.py:449  content is given and differs from the stored text
ContentChanges == op.content # NoContent /\ op.content # db[op.id].text

\* faiss_manager.py:472  importance is given and differs from the stored one
\* (read from the row fetched at line 412)
ImportanceChanges ==
    op.importance # NoImportance /\ op.importance # pre.db[op.id].importance

\* faiss_manager.py:471-518 after the content stage: with no field to update
\* the call returns without commit or rollback; otherwise it goes on to the
\* metadata write.
AfterContentStage(fields) ==
    LET all == IF ImportanceChanges THEN Append(fields, "importance") ELSE fields
    IN IF all = <<>>
       THEN /\ op' = [op EXCEPT !.pc = "idle", !.outcome = "ok", !.fields = <<>>]
            /\ UNCHANGED <<db, txnOpen, fts>>
       ELSE /\ op' = [op EXCEPT !.pc = "upd_meta", !.fields = all]
            /\ UNCHANGED <<db, txnOpen, fts>>

\* faiss_manager.py:411-425  get_documents; an unknown id is rolled back
UpdateGet(fail) ==
    /\ op.pc = "upd_get"
    /\ IF fail
       THEN Ends("failed", "get", TRUE)
       ELSE IF op.id \notin DOMAIN db
       THEN Ends("failed", "notfound", TRUE)
       ELSE IF ContentChanges
       THEN /\ op' = [op EXCEPT !.pc = "upd_embed"]
            /\ UNCHANGED <<db, txnOpen, fts>>
       ELSE AfterContentStage(<<>>)
    /\ UNCHANGED <<dbCommitted, ftsCommitted, index, indexDisk, nextId, pre, opsStarted>>
    /\ UNCHANGED <<found, purged>>
    /\ UNCHANGED notStore

\* faiss_manager.py:451  await embed_query(content)
UpdateEmbed(fail) ==
    /\ op.pc = "upd_embed"
    /\ IF fail
       THEN Ends("failed", "embed", TRUE)
       ELSE /\ op' = [op EXCEPT !.pc = "upd_text"]
            /\ UNCHANGED <<db, txnOpen, fts>>
    /\ UNCHANGED <<dbCommitted, ftsCommitted, index, indexDisk, nextId, pre, opsStarted>>
    /\ UNCHANGED <<found, purged>>
    /\ UNCHANGED notStore

\* faiss_manager.py:454-457  UPDATE documents SET text = ?
UpdateText(fail) ==
    /\ op.pc = "upd_text"
    /\ IF fail
       THEN Ends("failed", "text", TRUE)
       ELSE /\ db' = [db EXCEPT ![op.id].text = op.content]
            /\ fts' = AfterUpdate(fts, op.id, op.content)
            /\ op' = [op EXCEPT !.pc = "upd_swap"]
            /\ txnOpen' = txnOpen
    /\ UNCHANGED <<dbCommitted, ftsCommitted, index, indexDisk, nextId, pre, opsStarted>>
    /\ UNCHANGED <<found, purged>>
    /\ UNCHANGED notStore

\* faiss_manager.py:461-466  remove_ids then add_with_ids; failAt names the
\* call that raises ("none": neither).
UpdateSwap(failAt) ==
    /\ op.pc = "upd_swap"
    /\ CASE failAt = "remove" ->
              /\ Ends("failed", "remove", TRUE)
              /\ index' = index
         [] failAt = "add" ->
              /\ Ends("failed", "add", TRUE)
              /\ index' = Without(index, {op.id})
         [] OTHER ->
              /\ index' = With(index, op.id, Embed(op.content))
              /\ op' = [op EXCEPT !.pc = "upd_save"]
              /\ UNCHANGED <<db, txnOpen, fts>>
    /\ UNCHANGED <<dbCommitted, ftsCommitted, indexDisk, nextId, pre, opsStarted>>
    /\ UNCHANGED <<found, purged>>
    /\ UNCHANGED notStore

\* faiss_manager.py:467-469  await save_index()
UpdateSave(fail) ==
    /\ op.pc = "upd_save"
    /\ IF fail
       THEN /\ Ends("failed", "save", TRUE)
            /\ indexDisk' = indexDisk
       ELSE /\ indexDisk' = index
            /\ AfterContentStage(<<"content">>)
    /\ UNCHANGED <<dbCommitted, ftsCommitted, index, nextId, pre, opsStarted>>
    /\ UNCHANGED <<found, purged>>
    /\ UNCHANGED notStore

\* An update that writes the changed fields and no update_history entry:
\* the variant of UpdatedRow that C25 has to tell apart from the code.
UpdatedRowNoHistory(row) ==
    [row EXCEPT
        !.importance = IF ImportanceChanges THEN op.importance
                       ELSE pre.db[op.id].importance]

\* The metadata written at line 498: the fetched metadata with the changed
\* fields and one more update_history entry.
UpdatedRow(row) ==
    [row EXCEPT
        !.importance = IF ImportanceChanges THEN op.importance
                       ELSE pre.db[op.id].importance,
        !.hist = Append(pre.db[op.id].hist, op.fields)]

\* faiss_manager.py:497-501  UPDATE documents SET metadata = ?
UpdateMeta(fail) ==
    /\ op.pc = "upd_meta"
    /\ IF fail
       THEN Ends("failed", "meta", TRUE)
       ELSE /\ db' = [db EXCEPT ![op.id] = UpdatedRow(@)]
            /\ fts' = AfterUpdate(fts, op.id, db[op.id].text)
            /\ op' = [op EXCEPT !.pc = "upd_commit"]
            /\ txnOpen' = txnOpen
    /\ UNCHANGED <<dbCommitted, ftsCommitted, index, indexDisk, nextId, pre, opsStarted>>
    /\ UNCHANGED <<found, purged>>
    /\ UNCHANGED notStore

\* faiss_manager.py:504  await commit(); a failure is rolled back (line 524)
UpdateCommit(fail) ==
    /\ op.pc = "upd_commit"
    /\ IF fail
       THEN /\ Ends("failed", "commit", TRUE)
            /\ dbCommitted' = dbCommitted
            /\ ftsCommitted' = ftsCommitted
       ELSE /\ dbCommitted' = db
            /\ db' = db
            /\ ftsCommitted' = fts
            /\ fts' = fts
            /\ txnOpen' = FALSE
            /\ op' = [op EXCEPT !.pc = "idle", !.outcome = "ok"]
    /\ UNCHANGED <<index, indexDisk, nextId, pre, opsStarted>>
    /\ UNCHANGED <<found, purged>>
    /\ UNCHANGED notStore

\* The awaits of delete_memories and update_memory after BEGIN.
Awaits == {"del_sql", "del_save", "del_commit", "upd_get", "upd_embed",
           "upd_text", "upd_save", "upd_meta", "upd_commit"}

\* The task running the operation is cancelled while it is suspended:
\* CancelledError is no Exception, so neither `except Exception` runs.
Cancel ==
    /\ op.pc \in Awaits
    /\ Ends("cancelled", "none", FALSE)
    /\ UNCHANGED <<dbCommitted, ftsCommitted, index, indexDisk, nextId, pre, opsStarted>>
    /\ UNCHANGED <<found, purged>>
    /\ UNCHANGED notStore

\* What a dense search can return: db.retrieve() looks the query up in the
\* Faiss index and fetches the hits from the documents table.
DenseHits == DOMAIN index \cap DOMAIN db

\* sparse_retriever.py:187-240  What a sparse search can return: the FTS5
\* matches, read on a connection of their own, that _get_documents finds in
\* the documents table.
SparseHits == DOMAIN ftsCommitted \cap DOMAIN dbCommitted

\* recall_engine.py:75-110  the three search paths; the fused list is drawn
\* from the two lists.
Hits(mode) ==
    CASE mode = "dense" -> DenseHits
      [] mode = "sparse" -> SparseHits
      [] OTHER -> DenseHits \cup SparseHits

\* A search is made between two operations and returns some of the hits.
Search(mode, ids) ==
    /\ op.pc = "idle"
    /\ ~found.called
    /\ ids \subseteq Hits(mode)
    /\ found' = [called |-> TRUE, mode |-> mode, ids |-> ids]
    /\ UNCHANGED <<db, dbCommitted, txnOpen, index, indexDisk, nextId, op, pre,
                   opsStarted, fts, ftsCommitted, purged>>
    /\ UNCHANGED notStore

NextStore ==
    \/ \E c \in Contents, i \in Importances : AddMemory(c, i)
    \/ \E ids \in SUBSET Ids : DeleteBegin(ids)
    \/ \E fail \in BOOLEAN : DeleteSql(fail)
    \/ \E fail \in BOOLEAN : DeleteRemove(fail)
    \/ \E fail \in BOOLEAN : DeleteSave(fail)
    \/ \E fail \in BOOLEAN : DeleteCommit(fail)
    \/ \E id \in Ids, c \in Contents \cup {NoContent},
          i \in Importances \cup {NoImportance} : UpdateBegin(id, c, i)
    \/ \E fail \in BOOLEAN : UpdateGet(fail)
    \/ \E fail \in BOOLEAN : UpdateEmbed(fail)
    \/ \E fail \in BOOLEAN : UpdateText(fail)
    \/ \E failAt \in {"none", "remove", "add"} : UpdateSwap(failAt)
    \/ \E fail \in BOOLEAN : UpdateSave(fail)
    \/ \E fail \in BOOLEAN : UpdateMeta(fail)
    \/ \E fail \in BOOLEAN : UpdateCommit(fail)
    \/ Cancel
    \/ \E mode \in {"dense", "sparse", "hybrid"}, ids \in SUBSET Ids :
          Search(mode, ids)

\* C6: whenever no operation is in flight, the ids in the dense index are
\* the ids in the documents table.
C6_IndexMatchesDocuments ==
    op.pc = "idle" => DOMAIN index = DOMAIN db

\* The ids of the last delete_memories call that were stored when it began.
DeletedIds == op.ids \cap DOMAIN pre.db

\* C7: a delete_memories call whose index removal or index save failed has
\* rolled the SQL delete back and raised, and every id it was given is still
\* in the documents table and in the dense index, as before the call.
C7_FailedDeleteRestores ==
    (op.pc = "idle" /\ op.name = "delete" /\ op.failedAt \in {"remove", "save"})
        => /\ op.outcome = "raised"
           /\ ~txnOpen
           /\ db = pre.db
           /\ \A id \in DeletedIds : id \in DOMAIN db /\ id \in DOMAIN index

\* The last call was update_memory on a stored record with a new content.
ContentUpdate ==
    /\ op.name = "update"
    /\ op.id \in DOMAIN pre.db
    /\ op.content # NoContent
    /\ op.content # pre.db[op.id].text

\* Text, metadata and vector of the updated record are as before the call.
RecordAsBefore ==
    /\ op.id \in DOMAIN db
    /\ db[op.id] = pre.db[op.id]
    /\ op.id \in DOMAIN index
    /\ index[op.id] = pre.index[op.id]

\* C8: update_memory with a changed content is atomic: a failed step makes
\* the call report failure with text, metadata and vector as before; a
\* success leaves text and vector of the new content under the same id.
C8_UpdateAtomic ==
    (op.pc = "idle" /\ ContentUpdate) =>
        /\ op.failedAt \in {"embed", "text", "remove", "add", "save", "meta", "commit"}
              => (op.outcome = "failed" /\ RecordAsBefore)
        /\ op.outcome = "ok"
              => /\ db[op.id].text = op.content
                 /\ index[op.id] = Embed(op.content)

\* db and index are entirely as before the last call.
EntirelyPre == db = pre.db /\ index = pre.index

\* db and index are entirely as the last call leaves them when it succeeds.
EntirelyPost ==
    CASE op.name = "delete" ->
            /\ db = Without(pre.db, op.ids)
            /\ index = Without(pre.index, op.ids)
      [] op.name = "update" /\ op.id \in DOMAIN pre.db ->
            /\ DOMAIN db = DOMAIN pre.db
            /\ \A id \in DOMAIN db \ {op.id} : db[id] = pre.db[id]
            /\ db[op.id].text =
                 (IF op.content = NoContent THEN pre.db[op.id].text ELSE op.content)
            /\ db[op.id].importance =
                 (IF op.importance = NoImportance THEN pre.db[op.id].importance
                  ELSE op.importance)
            /\ index = With(pre.index, op.id, Embed(db[op.id].text))
      [] OTHER -> EntirelyPre

\* C9: a cancelled delete_memories or update_memory leaves no transaction
\* open, and leaves documents table and dense index together entirely in
\* the state before the call or entirely in the state after it.
C9_CancelSafe ==
    (op.pc = "idle" /\ op.outcome = "cancelled") =>
        /\ ~txnOpen
        /\ (EntirelyPre \/ EntirelyPost)

\* The fields of the stored record that the last update_memory call was
\* given with a value other than the stored one.
ChangedFields ==
    (IF op.content # NoContent /\ op.content # pre.db[op.id].text
     THEN <<"content">> ELSE <<>>)
    \o (IF op.importance # NoImportance
            /\ op.importance # pre.db[op.id].importance
        THEN <<"importance">> ELSE <<>>)

\* C25: a successful update_memory returns the fields that changed; when
\* there are some, the record's update_history has one more entry, which
\* lists them; when there are none, the stored record is as it was.
C25_UpdateHistory ==
    (op.pc = "idle" /\ op.name = "update" /\ op.outcome = "ok") =>
        /\ op.fields = ChangedFields
        /\ IF ChangedFields = <<>>
           THEN db[op.id] = pre.db[op.id]
           ELSE db[op.id].hist = Append(pre.db[op.id].hist, ChangedFields)

\* C25 witness: a second successful update of a record has changed content
\* and importance, and the record's history has both updates.
C25_Witness ==
    /\ op.pc = "idle" /\ op.name = "update" /\ op.outcome = "ok"
    /\ op.fields = <<"content", "importance">>
    /\ Len(db[op.id].hist) = 2

\* C26: a delete_memories call that returned has lowered the number of
\* records by the number of its ids that were stored, and no search made
\* after it, dense, sparse or hybrid, returns an id it removed.
C26_DeletedStayGone ==
    /\ (op.pc = "idle" /\ op.name = "delete" /\ op.outcome = "ok") =>
           Cardinality(DOMAIN db) =
               Cardinality(DOMAIN pre.db) - Cardinality(DeletedIds)
    /\ found.called => found.ids \cap purged = {}

\* a hybrid search returns a record after another one was deleted
C26_Witness ==
    /\ found.called /\ found.mode = "hybrid" /\ found.ids # {}
    /\ purged # {}
    /\ op.name = "delete" /\ op.outcome = "ok" /\ DeletedIds # {}

(***************************************************************************)
(*              retry_on_failure and the two hooks that use it             *)
(* Times are in tenths of a second, scores in tenths.                      *)
(***************************************************************************)

Hooks == {"h1", "h2"}     \* hook invocations
MaxEvents == 2            \* events one extraction returns at most
Scores == {3, 5}          \* scores the evaluation may give
NoScore == 0 - 1          \* scores.get(temp_id) is None
importance_threshold == 5 \* reflection_engine.py:152 default 0.5

RECURSIVE Pow2(_)
Pow2(n) == IF n = 0 THEN 1 ELSE 2 * Pow2(n - 1)

NoCall == [kind |-> "none", pc |-> "none", max_retries |-> 0,
           backoff_factor |-> 0, attempt |-> 0, invoked |-> 0,
           swallowed |-> 0, waits |-> <<>>, queryOk |-> TRUE,
           events |-> 0, scores |-> <<>>, stored |-> <<>>,
           outcome |-> "none"]

InitRetry ==
    /\ calls = [h \in Hooks |-> NoCall]
    /\ terminated = FALSE

\* main.py:388-405  reflection_task: retry_on_failure(reflect_and_store,
\* max_retries=2, backoff_factor=1.0)
SpawnReflectionTask(h) ==
    /\ ~terminated
    /\ calls[h].kind = "none"
    /\ calls' = [calls EXCEPT ![h] =
                    [NoCall EXCEPT !.kind = "reflect", !.pc = "call",
                                   !.max_retries = 2, !.backoff_factor = 10]]
    /\ UNCHANGED <<terminated, notRetry>>

\* main.py:296-303  handle_memory_recall: retry_on_failure(recall,
\* max_retries=1, backoff_factor=0.5); queryOk: req.prompt is a string.
HandleMemoryRecall(h, queryOk) ==
    /\ ~terminated
    /\ calls[h].kind = "none"
    /\ calls' = [calls EXCEPT ![h] =
                    [NoCall EXCEPT !.kind = "recall", !.pc = "call",
                                   !.max_retries = 1, !.backoff_factor = 5,
                                   !.queryOk = queryOk]]
    /\ UNCHANGED <<terminated, notRetry>>

\* utils.py:119-122  one pass of the for loop: func is called
RetryAttempt(h) ==
    /\ calls[h].pc = "call"
    /\ calls' = [calls EXCEPT ![h].invoked = @ + 1,
                              ![h].pc = IF calls[h].kind = "reflect"
                                        THEN "extract" ELSE "recall",
                              ![h].events = 0, ![h].scores = <<>>]
    /\ UNCHANGED <<terminated, notRetry>>

\* utils.py:122  func returned: retry_on_failure returns its result
Returned(c) == [c EXCEPT !.pc = "done", !.outcome = "returned"]

\* utils.py:125-133 and 136  func raised: sleep backoff_factor * 2**attempt
\* and go round again, or after the last attempt raise last_exception.
Raised(c) ==
    IF c.attempt < c.max_retries
    THEN [c EXCEPT !.pc = "sleep",
                   !.waits = Append(@, c.backoff_factor * Pow2(c.attempt))]
    ELSE [c EXCEPT !.pc = "done", !.outcome = "raised"]

\* utils.py:131  asyncio.sleep(wait_time) is over: next pass of the loop
RetrySleepDone(h) ==
    /\ calls[h].pc = "sleep"
    /\ calls' = [calls EXCEPT ![h].attempt = @ + 1, ![h].pc = "call"]
    /\ UNCHANGED <<terminated, notRetry>>

\* reflection_engine.py:192-195  `except Exception` of reflect_and_store
\* logs the error; reflect_and_store then returns None.
Swallowed(c) == Returned([c EXCEPT !.swallowed = @ + 1])

\* recall_engine.py:72-111  recall: lines 76 and 83 use the query outside
\* the try and raise when it is no string; a search that raises is caught
\* at line 108 and [] is returned.
Recall(h, searchRaises) ==
    /\ calls[h].pc = "recall"
    /\ calls' = [calls EXCEPT ![h] =
                    IF ~calls[h].queryOk THEN Raised(@)
                    ELSE IF searchRaises THEN Swallowed(@)
                    ELSE Returned(@)]
    /\ UNCHANGED <<terminated, notRetry>>

\* reflection_engine.py:138-145  stage 1: _extract_events returns n events
\* or the LLM call raises.  The events are core/models/__init__.py's
\* MemoryEvent (the package shadows core/models.py), which has no temp_id.
\* sc: the score the evaluating LLM gives each event when it is asked.
ExtractEvents(h, n, sc, raises) ==
    /\ calls[h].pc = "extract"
    /\ Len(sc) = n
    /\ calls' = [calls EXCEPT ![h] =
                    IF raises THEN Swallowed(@)
                    ELSE IF n = 0 THEN Returned(@)
                    ELSE [@ EXCEPT !.events = n, !.scores = sc, !.pc = "score"]]
    /\ UNCHANGED <<terminated, notRetry>>

\* reflection_engine.py:147-149 and 91-93  stage 2: _evaluate_scores reads
\* event.temp_id before it calls the LLM; MemoryEvent has no such field, so
\* AttributeError is raised and caught at line 192.  The storing loop of
\* lines 154-185 is never reached.
EvaluateScores(h) ==
    /\ calls[h].pc = "score"
    /\ calls' = [calls EXCEPT ![h] = Swallowed(@)]
    /\ UNCHANGED <<terminated, notRetry>>

\* main.py:873-882  terminate(): forgetting_agent.stop() cancels the
\* periodic task, db.close(); the tasks made by create_task at main.py:405
\* are referenced nowhere and are left alone.
Terminate ==
    /\ ~terminated
    /\ terminated' = TRUE
    /\ periodicTask' = "None"
    /\ loopTasks' = IF periodicTask = "alive"
                    THEN [loopTasks EXCEPT !.ended = @ + 1] ELSE loopTasks
    /\ fpc' = [fpc EXCEPT ![Periodic] = "none"]
    /\ phase' = [phase EXCEPT ![Periodic] = "none"]
    /\ UNCHANGED <<opLock, lockQueue, manualTask, fresult, overlapped, pruned>>
    /\ UNCHANGED <<calls, sessionVars, fusionVars, storeVars, pluginVars, pruneVars,
                   recallVars, metaVars, fuseVars, hybridVars, startupVars, editVars,
                   sparseVars>>

NextRetry ==
    \/ Terminate
    \/ \E h \in Hooks :
           \/ SpawnReflectionTask(h)
           \/ \E queryOk \in BOOLEAN : HandleMemoryRecall(h, queryOk)
           \/ RetryAttempt(h)
           \/ RetrySleepDone(h)
           \/ \E searchRaises \in BOOLEAN : Recall(h, searchRaises)
           \/ \E n \in 0..MaxEvents, raises \in BOOLEAN :
                 \E sc \in [1..n -> Scores \cup {NoScore}] :
                    ExtractEvents(h, n, sc, raises)
           \/ EvaluateScores(h)

\* C10: a reflection whose attempt failed because the LLM, the embedder or
\* the storage call raised is over only after three attempts, with waits of
\* 1s and 2s between them.
C10_ReflectionRetried ==
    \A h \in Hooks :
        (/\ calls[h].kind = "reflect"
         /\ calls[h].pc = "done"
         /\ calls[h].swallowed > 0)
            => /\ calls[h].invoked = 3
               /\ calls[h].waits = <<10, 20>>


\* C11: a recall of the pre-LLM hook whose search raised is over only after
\* exactly one more attempt, made after a wait of 0.5s.
C11_RecallRetriedOnce ==
    \A h \in Hooks :
        (/\ calls[h].kind = "recall"
         /\ calls[h].pc = "done"
         /\ calls[h].swallowed > 0)
            => /\ calls[h].invoked = 2
               /\ calls[h].waits = <<5>>

\* A reflection task made by the post-LLM hook has not finished.
ReflectionRunning(h) == calls[h].kind = "reflect" /\ calls[h].pc # "done"

\* C12: once terminate() has returned no reflection task is still running.
C12_NoReflectionAfterTerminate ==
    terminated => \A h \in Hooks : ~ReflectionRunning(h)

(***************************************************************************)
(*        LivingMemoryPlugin: initialization gate and the two hooks        *)
(* The clock of the session manager stands still here; session expiry is  *)
(* exercised in SpecSession.                                               *)
(***************************************************************************)

HookIds == {"k1", "k2"}          \* hook invocations in flight at once
HookSessions == {"s1", "s2"}     \* conversation ids the host returns
NoSession == "None"              \* get_curr_conversation_id returned None
MaxHookCalls == 4                \* hook invocations in one run
summary_trigger_rounds == 2      \* reflection_engine.summary_trigger_rounds

\* history_to_reflect with the number of the reset that took it
NoSnapshot == [no |-> 0, sid |-> NoSession, history |-> <<>>]

NoHook == [kind |-> "none", pc |-> "none", sid |-> NoSession,
           snapshot |-> NoSnapshot, recalled |-> FALSE, injected |-> FALSE,
           result |-> "none"]

\* main.py:130-142  __init__: the initialization task is created
InitPlugin ==
    /\ initialization_task = "running"
    /\ initialization_complete = FALSE
    /\ hooks = [h \in HookIds |-> NoHook]
    /\ launched = <<>>
    /\ resets = 0
    /\ hooksStarted = 0
    /\ turnNo = 0

\* main.py:144-202  _initialize_plugin ends: ok, or a provider is missing
\* (line 152) or a step raised (lines 198-202).
InitializePlugin(ok) ==
    /\ initialization_task = "running"
    /\ initialization_task' = "done"
    /\ initialization_complete' = ok
    /\ UNCHANGED <<hooks, launched, resets, hooksStarted, turnNo>>
    /\ UNCHANGED <<sessionVars, notPlugin>>

\* main.py:314-316, 348-350  the turn appended to the history: its role, and
\* its text, told apart from every other turn's by its number
Turn(role) == [role |-> role, no |-> turnNo + 1]

\* A copy that misses the oldest turn: the variant of history_to_reflect
\* that C37 has to tell apart from the code.
HistoryTail(turns) == IF turns = <<>> THEN turns ELSE Tail(turns)

\* main.py:364  history_to_reflect = list(current_session["history"])
history_to_reflect(turns) == turns

\* The hook is over.
HookEnds(h, result) == [hooks[h] EXCEPT !.pc = "none", !.result = result]

\* A hook that does not wait for the initialization: the variant of
\* HookCalled that C13 has to tell apart from the code.
HookCalledUngated(h, kind) ==
    /\ hooks[h].pc = "none"
    /\ hooksStarted < MaxHookCalls
    /\ hooksStarted' = hooksStarted + 1
    /\ hooks' = [hooks EXCEPT ![h] = [NoHook EXCEPT !.kind = kind, !.pc = "conv"]]
    /\ UNCHANGED <<initialization_task, initialization_complete, launched, resets,
                   turnNo>>
    /\ UNCHANGED <<sessionVars, notPlugin>>

\* The host calls on_llm_request ("pre") or on_llm_response ("post").
\* main.py:204-228  _wait_for_initialization up to its first suspension: a
\* cancelled task makes wait_for raise CancelledError out of the hook.
HookCalled(h, kind) ==
    /\ hooks[h].pc = "none"
    /\ hooksStarted < MaxHookCalls
    /\ hooksStarted' = hooksStarted + 1
    /\ LET new == [NoHook EXCEPT !.kind = kind]
       IN hooks' = [hooks EXCEPT ![h] =
            IF initialization_complete THEN [new EXCEPT !.pc = "conv"]
            ELSE IF initialization_task = "running" THEN [new EXCEPT !.pc = "wait"]
            ELSE IF initialization_task = "done" THEN [new EXCEPT !.result = "noop"]
            ELSE [new EXCEPT !.result = "cancelled"]]
    /\ UNCHANGED <<initialization_task, initialization_complete, launched, resets,
                   turnNo>>
    /\ UNCHANGED <<sessionVars, notPlugin>>

\* main.py:217-219  wait_for returns because the task has ended
WaitReturns(h) ==
    /\ hooks[h].pc = "wait"
    /\ initialization_task # "running"
    /\ hooks' = [hooks EXCEPT ![h] =
            IF initialization_task = "cancelled" THEN HookEnds(h, "cancelled")
            ELSE IF initialization_complete THEN [@ EXCEPT !.pc = "conv"]
            ELSE HookEnds(h, "noop")]
    /\ UNCHANGED <<initialization_task, initialization_complete, launched,
                   resets, hooksStarted, turnNo>>
    /\ UNCHANGED <<sessionVars, notPlugin>>

\* main.py:220-222  wait_for times out: it cancels the task it waits for
WaitTimesOut(h) ==
    /\ hooks[h].pc = "wait"
    /\ initialization_task = "running"
    /\ initialization_task' = "cancelled"
    /\ hooks' = [hooks EXCEPT ![h] = HookEnds(h, "noop")]
    /\ UNCHANGED <<initialization_complete, launched, resets, hooksStarted, turnNo>>
    /\ UNCHANGED <<sessionVars, notPlugin>>

\* main.py:345-368  from get_session to reset_session, no await between:
\* the assistant turn is appended, round_count incremented, and at the
\* trigger the history is copied and the session reset.
PostHookSession(h, sid) ==
    LET got == SessionsAfterGet(sid)
        history == Append(got[sid].history, Turn("assistant"))
        round_count == got[sid].round_count + 1
        fires == round_count >= summary_trigger_rounds
    IN /\ turnNo' = turnNo + 1
       /\ sessions' = [got EXCEPT ![sid] =
                          IF fires THEN NewSession
                          ELSE [history |-> history, round_count |-> round_count]]
       /\ accessTimes' = TimesAfterGet(sid)
       /\ sessOrder' = OrderAfterGet(sid)
       /\ IF fires
          THEN /\ resets' = resets + 1
               /\ hooks' = [hooks EXCEPT ![h].pc = "persona", ![h].sid = sid,
                               ![h].snapshot = [no |-> resets + 1, sid |-> sid,
                                                history |-> history_to_reflect(history)]]
          ELSE /\ resets' = resets
               /\ hooks' = [hooks EXCEPT ![h] = [HookEnds(h, "done") EXCEPT !.sid = sid]]

\* main.py:278-283 and 334-344  get_curr_conversation_id returns sid or
\* raises; on_llm_response first returns when the response is not the
\* assistant's (roleOk) and returns when there is no conversation.
HookConversation(h, sid, raises, roleOk) ==
    /\ hooks[h].pc = "conv"
    /\ IF hooks[h].kind = "post" /\ ~raises /\ roleOk /\ sid # NoSession
       THEN PostHookSession(h, sid)
       ELSE /\ hooks' = [hooks EXCEPT ![h] =
                 IF hooks[h].kind = "post" /\ ~roleOk THEN HookEnds(h, "noop")
                 ELSE IF raises THEN HookEnds(h, "error")
                 ELSE IF hooks[h].kind = "post" THEN HookEnds(h, "noop")
                 ELSE [@ EXCEPT !.pc = "recall", !.sid = sid]]
            /\ UNCHANGED <<sessions, accessTimes, sessOrder, resets, turnNo>>
    /\ UNCHANGED <<initialization_task, initialization_complete, launched,
                   hooksStarted, now>>
    /\ UNCHANGED notPlugin

\* main.py:284-317  on_llm_request: the recall engine is called through
\* retry_on_failure; memories found are put into req.system_prompt; the
\* user turn is appended to the session.  A raise ends the hook at line 319.
PreHookRecall(h, outcome) ==
    /\ hooks[h].pc = "recall"
    /\ IF outcome = "raised"
       THEN /\ hooks' = [hooks EXCEPT ![h] =
                            [HookEnds(h, "error") EXCEPT !.recalled = TRUE]]
            /\ UNCHANGED <<sessions, accessTimes, sessOrder, turnNo>>
       ELSE LET sid == hooks[h].sid
            IN /\ hooks' = [hooks EXCEPT ![h] =
                               [HookEnds(h, "done") EXCEPT
                                   !.recalled = TRUE,
                                   !.injected = (outcome = "found")]]
               /\ turnNo' = turnNo + 1
               /\ sessions' = [SessionsAfterGet(sid) EXCEPT
                                  ![sid].history = Append(@, Turn("user"))]
               /\ accessTimes' = TimesAfterGet(sid)
               /\ sessOrder' = OrderAfterGet(sid)
    /\ UNCHANGED <<initialization_task, initialization_complete, launched,
                   resets, hooksStarted, now>>
    /\ UNCHANGED notPlugin

\* A hook that resets the session and launches nothing: the variant of
\* PostHookLaunch that C14 has to tell apart from the code.
PostHookLaunchDropped(h) ==
    /\ hooks[h].pc = "persona"
    /\ hooks' = [hooks EXCEPT ![h] = HookEnds(h, "done")]
    /\ UNCHANGED <<initialization_task, initialization_complete, launched,
                   resets, hooksStarted, turnNo>>
    /\ UNCHANGED <<sessionVars, notPlugin>>

\* main.py:370-405  on_llm_response after `await get_persona_id`:
\* asyncio.create_task(reflection_task()) on the snapshot
PostHookLaunch(h) ==
    /\ hooks[h].pc = "persona"
    /\ launched' = Append(launched, hooks[h].snapshot)
    /\ hooks' = [hooks EXCEPT ![h] = HookEnds(h, "done")]
    /\ UNCHANGED <<initialization_task, initialization_complete, resets,
                   hooksStarted, turnNo>>
    /\ UNCHANGED <<sessionVars, notPlugin>>

NextPlugin ==
    \/ \E ok \in BOOLEAN : InitializePlugin(ok)
    \/ \E h \in HookIds, kind \in {"pre", "post"} : HookCalled(h, kind)
    \/ \E h \in HookIds : WaitReturns(h)
    \/ \E h \in HookIds : WaitTimesOut(h)
    \/ \E h \in HookIds, sid \in HookSessions \cup {NoSession},
          raises \in BOOLEAN, roleOk \in BOOLEAN :
            HookConversation(h, sid, raises, roleOk)
    \/ \E h \in HookIds, outcome \in {"raised", "empty", "found"} :
            PreHookRecall(h, outcome)
    \/ \E h \in HookIds : PostHookLaunch(h)

\* The extracted events of a run whose score is at or above the threshold.
Qualifying(c) ==
    {i \in 1..c.events :
        c.scores[i] # NoScore /\ c.scores[i] >= importance_threshold}

\* C15: every finished reflection run has added exactly one record per
\* extracted event that has a score at or above the threshold, and none for
\* an event without a score or below the threshold.
C15_StoredAreQualifying ==
    \A h \in Hooks :
        (calls[h].kind = "reflect" /\ calls[h].pc = "done")
            => /\ {calls[h].stored[i] : i \in 1..Len(calls[h].stored)}
                     = Qualifying(calls[h])
               /\ Len(calls[h].stored) = Cardinality(Qualifying(calls[h]))

\* What a hook may read or change only after the gate: the session map,
\* the request, the engines and the reflection tasks.
Guarded ==
    <<sessions, accessTimes, sessOrder, launched, resets,
      [h \in HookIds |-> <<hooks[h].recalled, hooks[h].injected>>]>>

\* Hook h is past the initialization gate.
PastGate(h) == hooks[h].pc \in {"conv", "recall", "persona"}

\* C13: a hook gets past the gate, and session map, request, engines and
\* reflection tasks change, only when initialization has completed; a hook
\* that ends as a no-op leaves all of them as they were.
C13_HooksGated ==
    [][/\ (Guarded' # Guarded => initialization_complete)
       /\ \A h \in HookIds :
            /\ PastGate(h)' => initialization_complete'
            /\ (hooks[h].pc = "wait" /\ hooks'[h].result \in {"noop", "cancelled"}
                  /\ hooks'[h].pc = "none")
                 => Guarded' = Guarded]_vars

\* C13 witness: a hook's wait on the gate timed out and the hook ended as a
\* no-op with the session map untouched.
C13_Witness ==
    /\ initialization_task = "cancelled"
    /\ \E h \in HookIds : hooks[h].kind # "none" /\ hooks[h].result = "noop"
    /\ sessions = <<>>

\* The hooks that have reset a session and not yet launched its reflection.
Launching == {h \in HookIds : hooks[h].pc = "persona"}

MaxRecords == 2              \* records ever stored
MaxDay == 2                  \* the clock stops here
MaxRuns == 1                 \* prune runs in one behaviour
MaxEdits == 1                \* importance edits in one behaviour
page_size == 1               \* forgetting_batch_size, scaled down
retention_days == 1          \* retention_days, scaled down
decay_rate == 1              \* importance_decay_rate, per day
forget_threshold == 2        \* forgetting_agent.importance_threshold
full_importance == 3         \* importance 1.0 in these units
StoredImportances == {1, 3}  \* importance of a record when it is added
\* the values an administrator asks for: the ends of [0.0, 1.0] and one above
EditValues == {0, full_importance, full_importance + 1}
CreateTimes == {0, MaxDay}   \* create_time of a record when it is added

NoRun == [pc |-> "idle", result |-> "none", day |-> 0, total |-> 0, offset |-> 0,
          current_time |-> 0, memories_to_update |-> <<>>,
          ids_to_delete |-> <<>>, failed |-> FALSE]

InitPrune ==
    /\ mem = <<>>
    /\ today = 0
    /\ run = NoRun
    /\ before = <<>>
    /\ nextMem = 1
    /\ runs = 0
    /\ edits = 0

\* faiss_manager.py:41-95  add_memory with the given importance and, through
\* the metadata's timestamp, create_time
StoreRecord(importance, create_time) ==
    /\ run.pc = "idle"
    /\ nextMem <= MaxRecords
    /\ mem' = With(mem, nextMem, [importance |-> importance,
                                   create_time |-> create_time])
    /\ nextMem' = nextMem + 1
    /\ UNCHANGED <<today, run, before, runs, edits>>
    /\ UNCHANGED notPrune

\* main.py:592-653  /lmem edit <id> importance <value>: a value outside
\* [0.0, 1.0] is refused, another one is stored by update_memory; before
\* keeps the records that only the run has touched
EditImportance(id, value) ==
    /\ run.pc = "idle"
    /\ id \in DOMAIN mem
    /\ value >= 0 /\ value <= full_importance
    /\ value # mem[id].importance
    /\ mem' = [mem EXCEPT ![id].importance = value]
    /\ before' = [i \in (DOMAIN before) \ {id} |-> before[i]]
    /\ edits < MaxEdits
    /\ edits' = edits + 1
    /\ UNCHANGED <<today, run, nextMem, runs>>
    /\ UNCHANGED notPrune

\* a day passes (a run takes less than a day)
DayPasses ==
    /\ run.pc = "idle"
    /\ today < MaxDay
    /\ today' = today + 1
    /\ UNCHANGED <<mem, run, before, nextMem, runs, edits>>
    /\ UNCHANGED notPrune

\* The ids of S in ascending order (ORDER BY id).
RECURSIVE InOrder(_)
InOrder(S) ==
    IF S = {} THEN <<>>
    ELSE LET least == CHOOSE x \in S : \A y \in S : x <= y
         IN <<least>> \o InOrder(S \ {least})

\* faiss_manager.py:201-251  get_memories_paginated: LIMIT page_size OFFSET offset
Page(offset) ==
    LET ids == InOrder(DOMAIN mem)
    IN SubSeq(ids, offset + 1,
              IF offset + page_size < Len(ids) THEN offset + page_size ELSE Len(ids))

\* forgetting_agent.py:188-195  the importance written back:
\* max(0, importance - days_since_creation * decay_rate)
Decayed(rec, current_time) ==
    LET decayed_importance ==
            rec.importance - (current_time - rec.create_time) * decay_rate
    IN IF decayed_importance > 0 THEN decayed_importance ELSE 0

\* A run that deletes what is old or unimportant: the variant of
\* ShouldDelete that C17 has to tell apart from the code.
ShouldDeleteEither(rec, current_time) ==
    \/ current_time - rec.create_time > retention_days
    \/ Decayed(rec, current_time) < forget_threshold

\* forgetting_agent.py:203-209  is_old and is_unimportant
ShouldDelete(rec, current_time) ==
    /\ current_time - rec.create_time > retention_days
    /\ Decayed(rec, current_time) < forget_threshold

\* forgetting_agent.py:180-215  the for loop over one batch: the updates and
\* the ids to delete it adds, in the batch's order
RECURSIVE BatchUpdates(_, _)
BatchUpdates(batch, current_time) ==
    IF batch = <<>> THEN <<>>
    ELSE <<[id |-> Head(batch),
            importance |-> Decayed(mem[Head(batch)], current_time)]>>
         \o BatchUpdates(Tail(batch), current_time)

BatchDeletes(batch, current_time) ==
    SelectSeq(batch, LAMBDA id : ShouldDelete(mem[id], current_time))

\* faiss_manager.py:270-305  update_memories_metadata: the table afterwards;
\* a later entry for the same id overwrites an earlier one
RECURSIVE Updated(_, _)
Updated(table, updates) ==
    IF updates = <<>> THEN table
    ELSE LET u == Head(updates)
         IN Updated(IF u.id \in DOMAIN table
                    THEN [table EXCEPT ![u.id].importance = u.importance]
                    ELSE table,
                    Tail(updates))

\* The run is over.
RunEnds(r, result) == [r EXCEPT !.pc = "idle", !.result = result]

\* forgetting_agent.py:160 and 231-255  where the run goes when the loop
\* has handled the batch at r.offset: the next batch, or after the loop the
\* final update, the deletion, or the end.
AfterBatch(r) ==
    IF r.offset + page_size < r.total
    THEN [r EXCEPT !.offset = @ + page_size, !.pc = "page"]
    ELSE IF r.memories_to_update # <<>> THEN [r EXCEPT !.pc = "update"]
    ELSE IF r.ids_to_delete # <<>> THEN [r EXCEPT !.pc = "delete"]
    ELSE RunEnds(r, "done")

\* The same after `break` (an empty batch).
AfterLoop(r) ==
    IF r.memories_to_update # <<>> THEN [r EXCEPT !.pc = "update"]
    ELSE IF r.ids_to_delete # <<>> THEN [r EXCEPT !.pc = "delete"]
    ELSE RunEnds(r, "done")

\* _prune_memories is called: await count_total_memories()
PruneBegins ==
    /\ run.pc = "idle"
    /\ runs < MaxRuns
    /\ runs' = runs + 1
    /\ run' = [NoRun EXCEPT !.pc = "count", !.day = today]
    /\ before' = mem
    /\ UNCHANGED <<mem, today, nextMem, edits>>
    /\ UNCHANGED notPrune

\* forgetting_agent.py:133-141  the count is back (0 when the query fails,
\* faiss_manager.py:264-266); get_now_datetime(self.context) hands the
\* Context to pytz.timezone as the zone name: it returns the time, or raises
\* and the except at line 265 ends the run.
PruneCounted(countFails, nowRaises) ==
    /\ run.pc = "count"
    /\ run' = IF countFails \/ mem = <<>>
              THEN RunEnds([run EXCEPT !.failed = countFails], "empty")
              ELSE IF nowRaises THEN RunEnds(run, "raised")
              ELSE [run EXCEPT !.total = Cardinality(DOMAIN mem),
                               !.current_time = today, !.pc = "page"]
    /\ UNCHANGED <<mem, today, before, nextMem, runs, edits>>
    /\ UNCHANGED notPrune

\* forgetting_agent.py:164-229  one batch: fetched (get_memories_paginated
\* returns [] when its query fails, which ends the loop), decayed, marked;
\* with 2 * page_size updates pending the intermediate update is next.
PruneBatch(fetchFails) ==
    /\ run.pc = "page"
    /\ LET batch == IF fetchFails THEN <<>> ELSE Page(run.offset)
           r == [run EXCEPT
                   !.memories_to_update =
                        @ \o BatchUpdates(batch, run.current_time),
                   !.ids_to_delete = @ \o BatchDeletes(batch, run.current_time),
                   !.failed = @ \/ fetchFails]
       IN run' = IF batch = <<>> THEN AfterLoop(r)
                 ELSE IF Len(r.memories_to_update) >= page_size * 2
                 THEN [r EXCEPT !.pc = "mid_update"]
                 ELSE AfterBatch(r)
    /\ UNCHANGED <<mem, today, before, nextMem, runs, edits>>
    /\ UNCHANGED notPrune

\* forgetting_agent.py:219-226  the intermediate update; a failure is logged
PruneMidUpdate(fails) ==
    /\ run.pc = "mid_update"
    /\ mem' = IF fails THEN mem ELSE Updated(mem, run.memories_to_update)
    /\ run' = AfterBatch([run EXCEPT !.memories_to_update = <<>>,
                                     !.failed = @ \/ fails])
    /\ UNCHANGED <<today, before, nextMem, runs, edits>>
    /\ UNCHANGED notPrune

\* forgetting_agent.py:231-238  the final update; a failure is logged
PruneFinalUpdate(fails) ==
    /\ run.pc = "update"
    /\ mem' = IF fails THEN mem ELSE Updated(mem, run.memories_to_update)
    /\ run' = LET r == [run EXCEPT !.failed = @ \/ fails]
              IN IF r.ids_to_delete # <<>> THEN [r EXCEPT !.pc = "delete"]
                 ELSE RunEnds(r, "done")
    /\ UNCHANGED <<today, before, nextMem, runs, edits>>
    /\ UNCHANGED notPrune

\* forgetting_agent.py:240-255  delete_memories on the marked ids (one batch
\* of at most 100); a failure is logged
PruneDeletes(fails) ==
    /\ run.pc = "delete"
    /\ mem' = IF fails THEN mem
              ELSE Without(mem, {run.ids_to_delete[i] :
                                    i \in 1..Len(run.ids_to_delete)})
    /\ run' = RunEnds([run EXCEPT !.failed = @ \/ fails], "done")
    /\ UNCHANGED <<today, before, nextMem, runs, edits>>
    /\ UNCHANGED notPrune

NextPrune ==
    \/ \E i \in StoredImportances, t \in CreateTimes : StoreRecord(i, t)
    \/ \E id \in 1..MaxRecords, value \in EditValues : EditImportance(id, value)
    \/ DayPasses
    \/ PruneBegins
    \/ \E countFails \in BOOLEAN, nowRaises \in BOOLEAN :
          PruneCounted(countFails, nowRaises)
    \/ \E fetchFails \in BOOLEAN : PruneBatch(fetchFails)
    \/ \E fails \in BOOLEAN : PruneMidUpdate(fails)
    \/ \E fails \in BOOLEAN : PruneFinalUpdate(fails)
    \/ \E fails \in BOOLEAN : PruneDeletes(fails)

\* C16: a prune run never increases a record's importance: every record
\* that was stored when the run began has at most the importance it had.
C16_PruneNeverIncreases ==
    \A id \in (DOMAIN mem) \cap (DOMAIN before) :
        mem[id].importance <= before[id].importance

\* The records the run has deleted.
Deleted == (DOMAIN before) \ (DOMAIN mem)

C18_PruneExact ==
    (run.pc = "idle" /\ run.result \in {"done", "raised"} /\ ~run.failed) =>
        \A id \in DOMAIN before :
            IF ShouldDelete(before[id], run.day)
            THEN id \notin DOMAIN mem
            ELSE /\ id \in DOMAIN mem
                 /\ mem[id].importance = Decayed(before[id], run.day)

MaxRecalled == 3             \* records in the store
MaxWall == 2                 \* the clock stops here
top_k == 2                   \* top_k, scaled down
RecallIds == 1..MaxRecalled

NoSearch == [pc |-> "idle", path |-> "none", strategy |-> "none", started |-> 0,
             dense |-> {}, sparse |-> {}, results |-> {}]

InitRecall ==
    /\ last_access_time = [id \in RecallIds |-> 0]
    /\ wall = 0
    /\ search = NoSearch

\* time.time() moves on
WallTicks ==
    /\ wall < MaxWall
    /\ wall' = wall + 1
    /\ UNCHANGED <<last_access_time, search>>
    /\ UNCHANGED notRecall

\* recall_engine.py:86-99  the branch recall() takes
SearchPath(retrieval_mode, sparse_retriever) ==
    IF retrieval_mode = "hybrid" /\ sparse_retriever THEN "hybrid"
    ELSE IF retrieval_mode = "sparse" /\ sparse_retriever THEN "sparse"
    ELSE "dense"

\* recall_engine.py:52-99  recall() is called at time wall
RecallBegins(retrieval_mode, sparse_retriever, recall_strategy) ==
    /\ search.pc \in {"idle", "returned"}
    /\ LET path == SearchPath(retrieval_mode, sparse_retriever)
       IN search' = [NoSearch EXCEPT
                        !.pc = IF path = "sparse" THEN "sparse" ELSE "dense",
                        !.path = path,
                        !.strategy = recall_strategy,
                        !.started = wall]
    /\ UNCHANGED <<last_access_time, wall>>
    /\ UNCHANGED notRecall

\* where the recall goes once search_memory is over
AfterDense(r) == IF r.path = "hybrid" THEN "sparse" ELSE "return"

\* how many hits a retriever is asked for: recall_engine.py:131-138 (k*2 in
\* the hybrid branch), 208-210 and 242-244 (k)
Limit(r) == IF r.path = "hybrid" THEN top_k * 2 ELSE top_k

\* faiss_manager.py:116-133  search_memory: db.retrieve returns hits (none
\* when it raises: recall_engine.py:144-146, 226-228); with hits, the access
\* times are updated next
DenseRetrieved(hits) ==
    /\ search.pc = "dense"
    /\ Cardinality(hits) <= Limit(search)
    /\ search' = [search EXCEPT
                     !.dense = hits,
                     !.pc = IF hits # {} THEN "touch" ELSE AfterDense(search)]
    /\ UNCHANGED <<last_access_time, wall>>
    /\ UNCHANGED notRecall

\* faiss_manager.py:144-176  last_access_time = current_timestamp for doc_ids
TouchedAt(times, ids, current_timestamp) ==
    [id \in DOMAIN times |-> IF id \in ids THEN current_timestamp ELSE times[id]]

\* faiss_manager.py:135-188  update_memory_access_time: sets the hits'
\* last_access_time to time.time(), or fails, rolls back and logs
AccessTimeUpdated(fails) ==
    /\ search.pc = "touch"
    /\ last_access_time' = IF fails THEN last_access_time
                           ELSE TouchedAt(last_access_time, search.dense, wall)
    /\ search' = [search EXCEPT !.pc = AfterDense(search)]
    /\ UNCHANGED wall
    /\ UNCHANGED notRecall

\* recall_engine.py:136-138, 242-244  sparse_retriever.search returns hits
\* (none when it raises: recall_engine.py:150-152, 268-270)
SparseRetrieved(hits) ==
    /\ search.pc = "sparse"
    /\ Cardinality(hits) <= Limit(search)
    /\ search' = [search EXCEPT !.sparse = hits, !.pc = "return"]
    /\ UNCHANGED <<last_access_time, wall>>
    /\ UNCHANGED notRecall

\* result_fusion.py:57-82  fuse(dense, sparse, k): k of the hits, or all
Fused(r) ==
    LET all == r.dense \cup r.sparse
        n == IF Cardinality(all) < top_k THEN Cardinality(all) ELSE top_k
    IN {R \in SUBSET all : Cardinality(R) = n}

\* recall_engine.py:154-193, 212-228, 246-270  the result: the dense hits, the
\* sparse hits or the fused ones; in the dense and hybrid branches the
\* weighted rerank calls get_now_datetime(context) (recall_engine.py:283),
\* and when that raises the branch's except returns no results
RecallReturns(R, nowRaises) ==
    /\ search.pc = "return"
    /\ R \in Fused(search)
    /\ search.path # "hybrid" => R = search.dense \cup search.sparse
    /\ LET reranks == /\ search.path # "sparse"
                      /\ search.strategy = "weighted"
                      /\ R # {}
       IN /\ nowRaises => reranks
          /\ search' = [search EXCEPT
                           !.pc = "returned",
                           !.results = IF nowRaises THEN {} ELSE R]
    /\ UNCHANGED <<last_access_time, wall>>
    /\ UNCHANGED notRecall

NextRecall ==
    \/ WallTicks
    \/ \E retrieval_mode \in {"hybrid", "dense", "sparse"},
          sparse_retriever \in BOOLEAN,
          recall_strategy \in {"weighted", "similarity"} :
          RecallBegins(retrieval_mode, sparse_retriever, recall_strategy)
    \/ \E hits \in SUBSET RecallIds : DenseRetrieved(hits)
    \/ \E fails \in BOOLEAN : AccessTimeUpdated(fails)
    \/ \E hits \in SUBSET RecallIds : SparseRetrieved(hits)
    \/ \E R \in SUBSET RecallIds, nowRaises \in BOOLEAN : RecallReturns(R, nowRaises)

\* C20: when a recall that began at time t has returned, every record in its
\* result has a last_access_time of t or later.
C20_ReturnedAreTouched ==
    search.pc = "returned" =>
        \A id \in search.results : last_access_time[id] >= search.started

(***************************************************************************)
(* The writers of one record's metadata column.  Each reads the whole      *)
(* column, changes its field in the copy and writes the whole copy back    *)
(* with UPDATE documents SET metadata = ?, with awaits in between:         *)
(* update_memory_access_time (faiss_manager.py:135-188), the prune run's   *)
(* flush (forgetting_agent.py:160-239 through update_memories_metadata,    *)
(* faiss_manager.py:270-305) and the admin edit (update_memory,            *)
(* faiss_manager.py:405-518).                                              *)
(***************************************************************************)
MaxWriters == 2              \* writers in one behaviour
WriterIds == 1..MaxWriters
WriterKinds == {"access", "prune", "edit"}

NoWriter == [kind |-> "none", pc |-> "none", value |-> 0,
             metadata |-> [importance |-> 0, last_access_time |-> 0],
             wrote |-> FALSE]

InitMeta ==
    /\ metaRow = [importance |-> full_importance, last_access_time |-> 0]
    /\ writers = [w \in WriterIds |-> NoWriter]
    /\ stampNext = 1

\* A writer is called: the access-time update takes current_timestamp
\* (faiss_manager.py:145), the edit is given its value (main.py:627-632).
WriterBegins(w, kind, value) ==
    /\ writers[w].pc = "none"
    /\ kind = "edit" => value >= 0 /\ value <= full_importance
    /\ writers' = [writers EXCEPT ![w] =
          [NoWriter EXCEPT !.kind = kind, !.pc = "read",
                           !.value = IF kind = "access" THEN stampNext
                                     ELSE IF kind = "edit" THEN value ELSE 0]]
    /\ stampNext' = IF kind = "access" THEN stampNext + 1 ELSE stampNext
    /\ UNCHANGED metaRow
    /\ UNCHANGED notMeta

\* The metadata the writer will store, from the metadata it has read:
\* faiss_manager.py:159-160 (last_access_time), forgetting_agent.py:188-195
\* (importance decayed by a day's rate), faiss_manager.py:472-474 (importance)
Changed(wr, read) ==
    IF wr.kind = "access" THEN [read EXCEPT !.last_access_time = wr.value]
    ELSE IF wr.kind = "prune"
    THEN [read EXCEPT !.importance =
             IF read.importance > decay_rate THEN read.importance - decay_rate ELSE 0]
    ELSE [read EXCEPT !.importance = wr.value]

\* An edit whose value is the stored one writes nothing: faiss_manager.py:493
NothingToWrite(wr, read) == wr.kind = "edit" /\ wr.value = read.importance

\* The writer's read returns: get_documents (faiss_manager.py:149, 411) or
\* get_memories_paginated (forgetting_agent.py:163)
WriterReads(w) ==
    /\ writers[w].pc = "read"
    /\ LET wr == writers[w]
       IN writers' = [writers EXCEPT ![w] =
             [wr EXCEPT !.metadata = Changed(wr, metaRow),
                        !.pc = IF NothingToWrite(wr, metaRow) THEN "done"
                               ELSE "write"]]
    /\ UNCHANGED <<metaRow, stampNext>>
    /\ UNCHANGED notMeta

\* UPDATE documents SET metadata = ? WHERE id = ?: the whole column
\* (faiss_manager.py:174-177, 292-295, 494-497)
Written(wr, stored) == wr.metadata

\* The writer's UPDATE and commit
WriterWrites(w) ==
    /\ writers[w].pc = "write"
    /\ metaRow' = Written(writers[w], metaRow)
    /\ writers' = [writers EXCEPT ![w] = [@ EXCEPT !.pc = "done", !.wrote = TRUE]]
    /\ UNCHANGED stampNext
    /\ UNCHANGED notMeta

NextMeta ==
    \E w \in WriterIds :
        \/ \E kind \in WriterKinds, value \in EditValues : WriterBegins(w, kind, value)
        \/ WriterReads(w)
        \/ WriterWrites(w)

\* C21: once an access-time update and another writer of the same record
\* have both completed, the record carries a last_access_time written by an
\* access-time update and an importance written by the other writer.
C21_AccessUpdateCommutes ==
    \A a \in WriterIds, o \in WriterIds :
        (/\ writers[a].kind = "access" /\ writers[a].pc = "done"
         /\ writers[o].kind \in {"prune", "edit"} /\ writers[o].wrote
         /\ writers[o].pc = "done"
         /\ \A w \in WriterIds : writers[w].pc \in {"none", "done"})
        => /\ \E w \in WriterIds :
                 /\ writers[w].kind = "access"
                 /\ metaRow.last_access_time = writers[w].value
           /\ \E w \in WriterIds :
                 /\ writers[w].kind \in {"prune", "edit"} /\ writers[w].wrote
                 /\ metaRow.importance = writers[w].metadata.importance

(***************************************************************************)
(* ResultFusion.fuse (result_fusion.py).  A result list is a sequence of   *)
(* [id, score] in the retriever's order, scores in tenths; the output is   *)
(* the sequence of the ids returned.  A strategy's scores are multiplied   *)
(* by a positive common denominator, which leaves their order as it is;    *)
(* sorted() and list.sort() are stable, so ties keep the order in which    *)
(* the results were collected.                                             *)
(***************************************************************************)
MaxFuseId == 3               \* ids of the records the retrievers return
MaxFuseLen == 2              \* length of a result list
MaxK == 2                    \* the k of a fuse call
FuseIds == 1..MaxFuseId
DenseScores == {0, 10}       \* similarities
SparseScores == {5, 10}      \* BM25 scores

\* the result lists of a retriever: distinct ids, scores not increasing
ResultLists(scores) ==
    {l \in UNION {[1..n -> [id : FuseIds, score : scores]] : n \in 0..MaxFuseLen} :
        \A i \in DOMAIN l, j \in DOMAIN l :
            i < j => l[i].id # l[j].id /\ l[i].score >= l[j].score}

\* query_info of analyze_query (result_fusion.py:284-311), or None
QueryInfos == {[type |-> "none", length |-> 0]}
              \cup [type : {"keyword", "semantic", "mixed"}, length : {5, 30, 150}]

IdsOf(l) == {l[i].id : i \in DOMAIN l}

\* enumerate(results): the 1-based place of id in l, 0 when it is not there
RankIn(l, id) ==
    IF id \in IdsOf(l) THEN CHOOSE i \in DOMAIN l : l[i].id = id ELSE 0

ScoreIn(l, id) == l[RankIn(l, id)].score

RECURSIVE IdSeq(_)
IdSeq(l) == IF l = <<>> THEN <<>> ELSE <<l[1].id>> \o IdSeq(Tail(l))

RECURSIVE Keep(_, _)
\* [x for x in ids if x in S]
Keep(ids, S) ==
    IF ids = <<>> THEN <<>>
    ELSE (IF ids[1] \in S THEN <<ids[1]>> ELSE <<>>) \o Keep(Tail(ids), S)

\* seq[:k]
FirstK(seq, k) == SubSeq(seq, 1, IF k < Len(seq) THEN k ELSE Len(seq))

\* the keys of result_map in insertion order: the dense ids, then the sparse
\* ids that are new (result_fusion.py:98-109)
Collected(d, s) == IdSeq(d) \o Keep(IdSeq(s), FuseIds \ IdsOf(d))

RECURSIVE InsertDesc(_, _, _)
\* x behind every element whose score is at least x's
InsertDesc(sorted, x, score) ==
    IF sorted = <<>> THEN <<x>>
    ELSE IF score[sorted[1]] >= score[x]
         THEN <<sorted[1]>> \o InsertDesc(Tail(sorted), x, score)
         ELSE <<x>> \o sorted

RECURSIVE SortDesc(_, _)
\* sorted(..., reverse=True): stable, by the score, largest first
SortDesc(ids, score) ==
    IF ids = <<>> THEN <<>>
    ELSE InsertDesc(SortDesc(SubSeq(ids, 1, Len(ids) - 1), score), ids[Len(ids)], score)

MaxScore(l) == CHOOSE m \in {l[i].score : i \in DOMAIN l} :
                  \A i \in DOMAIN l : l[i].score <= m

MinScore(l) == CHOOSE m \in {l[i].score : i \in DOMAIN l} :
                  \A i \in DOMAIN l : l[i].score >= m

FuseResult(outcome, out) == [outcome |-> outcome, out |-> out]

RECURSIVE RankProduct(_, _, _)
\* (base + step) * (base + 2 step) * ... * (base + n step)
RankProduct(base, step, n) ==
    IF n = 0 THEN 1 ELSE (base + n * step) * RankProduct(base, step, n - 1)

\* result_fusion.py:84-136  _rrf_fusion: the sum of 1 / (rrf_k + rank + 1)
\* over the lists that have the id, times the product of the denominators
RrfFusion(d, s, k, rrf_k) ==
    LET all == RankProduct(rrf_k, 1, MaxFuseLen)
        part(l, id) == IF RankIn(l, id) = 0 THEN 0 ELSE all \div (rrf_k + RankIn(l, id))
        score == [id \in FuseIds |-> part(d, id) + part(s, id)]
    IN FuseResult("returned", FirstK(SortDesc(Collected(d, s), score), k))

\* result_fusion.py:138-193  _weighted_fusion: scores divided by the list's
\* largest (1.0 for an empty list); a dense list whose largest similarity is
\* 0 divides by zero at line 159; a dense hit that the sparse list lacks
\* keeps final_score 0.0.  Scores times dense_max * sparse_max.
WeightedFusion(d, s, k, dense_weight, sparse_weight) ==
    LET dense_max == IF d = <<>> THEN 10 ELSE MaxScore(d)
        sparse_max == IF s = <<>> THEN 10 ELSE MaxScore(s)
        sparse_div == IF sparse_max > 0 THEN sparse_max ELSE 1
        sparse_part(id) == IF sparse_max > 0
                           THEN ScoreIn(s, id) * dense_max * sparse_weight ELSE 0
        score == [id \in FuseIds |->
                    IF id \notin IdsOf(s) THEN 0
                    ELSE IF id \in IdsOf(d)
                    THEN ScoreIn(d, id) * sparse_div * dense_weight + sparse_part(id)
                    ELSE sparse_part(id)]
    IN IF d # <<>> /\ dense_max = 0
       THEN FuseResult("raised", <<>>)
       ELSE FuseResult("returned", FirstK(SortDesc(Collected(d, s), score), k))

\* result_fusion.py:195-240  _cascade_fusion: the candidate ids are those of
\* sparse_results[:k*2]; the dense hits among them are kept; when they are
\* fewer than k, the sparse results whose id is no candidate fill up, and
\* all are sorted by similarity or BM25 score
CascadeFusion(d, s, k) ==
    LET candidate_ids == IdsOf(FirstK(s, k * 2))
        dense_candidates == Keep(IdSeq(d), candidate_ids)
        additional_sparse == FirstK(Keep(IdSeq(s), FuseIds \ candidate_ids),
                                    k - Len(dense_candidates))
        score == [id \in FuseIds |->
                    IF id \in IdsOf(d) THEN ScoreIn(d, id)
                    ELSE IF id \in IdsOf(s) THEN ScoreIn(s, id) ELSE 0]
    IN IF s = <<>> THEN FuseResult("returned", FirstK(IdSeq(d), k))
       ELSE IF Len(dense_candidates) < k
       THEN FuseResult("returned",
                FirstK(SortDesc(FirstK(dense_candidates, k) \o additional_sparse,
                                score), k))
       ELSE FuseResult("returned", FirstK(dense_candidates, k))

\* result_fusion.py:253-269  the branch _adaptive_fusion takes
AdaptiveBranch(q) ==
    IF q.type = "none" THEN "rrf"
    ELSE IF q.type = "keyword" \/ q.length < 10 THEN "sparse"
    ELSE IF q.type = "semantic" \/ q.length > 50 THEN "dense"
    ELSE "rrf"

\* result_fusion.py:258-266  self.sparse_weight and self.dense_weight are
\* assigned before _weighted_fusion is called
AdaptiveFuser(f, q) ==
    CASE AdaptiveBranch(q) = "sparse" ->
            [f EXCEPT !.sparse_weight = 7, !.dense_weight = 3]
      [] AdaptiveBranch(q) = "dense" ->
            [f EXCEPT !.sparse_weight = 2, !.dense_weight = 8]
      [] OTHER -> f

\* result_fusion.py:242-271  _adaptive_fusion
AdaptiveFusion(d, s, k, f, q) ==
    IF AdaptiveBranch(q) = "rrf" THEN RrfFusion(d, s, k, f.rrf_k)
    ELSE WeightedFusion(d, s, k, AdaptiveFuser(f, q).dense_weight,
                        AdaptiveFuser(f, q).sparse_weight)

\* result_fusion.py:626-637  _normalize_scores as a fraction: the numerator
\* of a score, and the denominator (1.0 for all when max = min)
NormSpan(l) == IF l = <<>> \/ MaxScore(l) = MinScore(l) THEN 1
               ELSE MaxScore(l) - MinScore(l)

NormScore(l, id) == IF MaxScore(l) = MinScore(l) THEN 1
                    ELSE ScoreIn(l, id) - MinScore(l)

\* result_fusion.py:313-374  _convex_combination: lambda * dense +
\* (1 - lambda) * sparse on the normalized scores, times both spans
ConvexCombination(d, s, k, convex_lambda) ==
    LET dense_score(id) == IF id \in IdsOf(d) THEN NormScore(d, id) * NormSpan(s) ELSE 0
        sparse_score(id) == IF id \in IdsOf(s) THEN NormScore(s, id) * NormSpan(d) ELSE 0
        score == [id \in FuseIds |->
                    convex_lambda * dense_score(id)
                        + (10 - convex_lambda) * sparse_score(id)]
    IN FuseResult("returned", FirstK(SortDesc(Collected(d, s), score), k))

RECURSIVE Interleave(_, _, _, _, _, _, _, _)
\* result_fusion.py:390-422  the while loop of _interleave_fusion from
\* dense_idx, sparse_idx and final_results on (from_dense of them carry a
\* dense_score); a pass that takes neither branch changes nothing, so the
\* loop never ends
Interleave(d, s, k, dense_count, dense_idx, sparse_idx, final_results, from_dense) ==
    IF ~(/\ Len(final_results) < k
         /\ (dense_idx < Len(d) \/ sparse_idx < Len(s)))
    THEN FuseResult("returned", final_results)
    ELSE IF from_dense < dense_count /\ dense_idx < Len(d)
    THEN LET doc_id == d[dense_idx + 1].id
             new == doc_id \notin {final_results[i] : i \in DOMAIN final_results}
         IN Interleave(d, s, k, dense_count, dense_idx + 1, sparse_idx,
                       IF new THEN Append(final_results, doc_id) ELSE final_results,
                       IF new THEN from_dense + 1 ELSE from_dense)
    ELSE IF sparse_idx < Len(s)
    THEN LET doc_id == s[sparse_idx + 1].id
             new == doc_id \notin {final_results[i] : i \in DOMAIN final_results}
         IN Interleave(d, s, k, dense_count, dense_idx, sparse_idx + 1,
                       IF new THEN Append(final_results, doc_id) ELSE final_results,
                       from_dense)
    ELSE FuseResult("hangs", <<>>)

\* result_fusion.py:376-424  _interleave_fusion: dense_count = int(k * ratio)
InterleaveFusion(d, s, k, interleave_ratio) ==
    Interleave(d, s, k, (k * interleave_ratio) \div 10, 0, 0, <<>>, 0)

\* result_fusion.py:426-487  _rank_fusion: dense_weight / dense_rank +
\* sparse_weight / sparse_rank, plus rank_bias_factor for an id in both
\* lists; times the product of the ranks there can be
RankFusion(d, s, k, dense_weight, sparse_weight, rank_bias_factor) ==
    LET all == RankProduct(0, 1, MaxFuseLen)
        part(l, id, weight) == IF RankIn(l, id) = 0 THEN 0
                               ELSE (weight * all) \div RankIn(l, id)
        score == [id \in FuseIds |->
                    part(d, id, dense_weight) + part(s, id, sparse_weight)
                    + (IF id \in IdsOf(d) \cap IdsOf(s)
                       THEN rank_bias_factor * all ELSE 0)]
    IN FuseResult("returned", FirstK(SortDesc(Collected(d, s), score), k))

RECURSIVE Ascending(_)
\* the ids of a set of small integers in the order a Python set yields them
Ascending(S) ==
    IF S = {} THEN <<>>
    ELSE LET least == CHOOSE x \in S : \A y \in S : x <= y
         IN <<least>> \o Ascending(S \ {least})

\* result_fusion.py:489-550  _score_fusion: Borda counts, (len - number of
\* better scored results) * weight, summed over the two lists
ScoreFusion(d, s, k, dense_weight, sparse_weight) ==
    LET better(l, id) == Cardinality({i \in DOMAIN l : l[i].score > ScoreIn(l, id)})
        part(l, id, weight) == IF id \in IdsOf(l)
                               THEN (Len(l) - better(l, id)) * weight ELSE 0
        score == [id \in FuseIds |->
                    part(d, id, dense_weight) + part(s, id, sparse_weight)]
    IN FuseResult("returned",
                  FirstK(SortDesc(Ascending(IdsOf(d) \cup IdsOf(s)), score), k))

\* len(text) of a record
TextLen(id) == id

\* result_fusion.py:559-571  twice the dynamic_rrf_k
DynamicRrfK2(rrf_k, q) ==
    IF q.type = "none" THEN 2 * rrf_k
    ELSE IF q.type = "keyword" \/ q.length < 20
    THEN (IF rrf_k > 60 THEN rrf_k ELSE 60)
    ELSE IF q.type = "semantic" \/ q.length > 100
    THEN (IF 3 * rrf_k < 240 THEN 3 * rrf_k ELSE 240)
    ELSE 2 * rrf_k

RECURSIVE SumLen(_)
SumLen(ids) == IF ids = <<>> THEN 0 ELSE TextLen(ids[1]) + SumLen(Tail(ids))

\* result_fusion.py:552-624, 639-664  _hybrid_rrf_fusion: the RRF sum with
\* dynamic_rrf_k, plus diversity_bonus * min(|len - avg| / avg, 1) with the
\* average text length of the results; times 10 * the product of the
\* denominators * the sum of the lengths
HybridRrfFusion(d, s, k, rrf_k, diversity_bonus, q) ==
    LET k2 == DynamicRrfK2(rrf_k, q)
        all == RankProduct(k2, 2, MaxFuseLen)
        ids == Collected(d, s)
        total == SumLen(ids)
        part(l, id) == IF RankIn(l, id) = 0 THEN 0
                       ELSE 2 * (all \div (k2 + 2 * RankIn(l, id)))
        off(id) == IF Len(ids) * TextLen(id) >= total
                   THEN Len(ids) * TextLen(id) - total
                   ELSE total - Len(ids) * TextLen(id)
        bonus(id) == IF diversity_bonus > 0 /\ id \in IdsOf(d) \cup IdsOf(s)
                     THEN diversity_bonus * all
                              * (IF off(id) < total THEN off(id) ELSE total)
                     ELSE 0
        score == [id \in FuseIds |->
                    (part(d, id) + part(s, id)) * 10 * (IF total > 0 THEN total ELSE 1)
                    + bonus(id)]
    IN FuseResult("returned", FirstK(SortDesc(ids, score), k))

\* result_fusion.py:57-82  fuse, with the fuser f as self
FuseOf(f, cfg, d, s, k, q) ==
    CASE f.strategy = "rrf" -> RrfFusion(d, s, k, f.rrf_k)
      [] f.strategy = "weighted" ->
            WeightedFusion(d, s, k, f.dense_weight, f.sparse_weight)
      [] f.strategy = "cascade" -> CascadeFusion(d, s, k)
      [] f.strategy = "adaptive" -> AdaptiveFusion(d, s, k, f, q)
      [] f.strategy = "convex" -> ConvexCombination(d, s, k, f.convex_lambda)
      [] f.strategy = "interleave" -> InterleaveFusion(d, s, k, f.interleave_ratio)
      [] f.strategy = "rank_fusion" ->
            RankFusion(d, s, k, f.dense_weight, f.sparse_weight, f.rank_bias_factor)
      [] f.strategy = "score_fusion" ->
            ScoreFusion(d, s, k, f.dense_weight, f.sparse_weight)
      [] f.strategy = "hybrid_rrf" ->
            HybridRrfFusion(d, s, k, f.rrf_k, cfg["diversity_bonus"], q)
      [] OTHER -> FuseResult("raised", <<>>)

\* self after fuse: only _adaptive_fusion assigns to self
FuserAfter(f, q) == IF f.strategy = "adaptive" THEN AdaptiveFuser(f, q) ELSE f

NoFuse == [called |-> FALSE, dense |-> <<>>, sparse |-> <<>>, k |-> 0,
           query_info |-> [type |-> "none", length |-> 0],
           before |-> [strategy |-> "none"], outcome |-> "none", out |-> <<>>]

InitFuse == lastFuse = NoFuse

\* recall_engine.py:160-165  fuse(dense_results, sparse_results, k, query_info)
Fuse(d, s, k, q) ==
    /\ LET r == FuseOf(fuser, fusionCfg, d, s, k, q)
       IN lastFuse' = [called |-> TRUE, dense |-> d, sparse |-> s, k |-> k,
                       query_info |-> q, before |-> [strategy |-> fuser.strategy],
                       outcome |-> r.outcome, out |-> r.out]
    /\ fuser' = FuserAfter(fuser, q)
    /\ UNCHANGED <<fusionCfg, lastCmd, lastResponse>>
    /\ UNCHANGED notFuse

\* recall_engine.py:168-193  _hybrid_search has turned the fused results
\* into its own and returned
FuseConsumed ==
    /\ lastFuse.called
    /\ lastFuse.outcome # "hangs"
    /\ lastFuse' = NoFuse
    /\ UNCHANGED fusionVars
    /\ UNCHANGED notFuse

\* fusion_handler.py  manage_fusion_strategy(strategy) with no parameter
SwitchStrategy(strategy) ==
    /\ ~lastFuse.called
    /\ ManageFusionStrategy([strategy |-> strategy, key |-> "",
                             value |-> [kind |-> "nan", n |-> 0]])

\* a recall reaches fuse with some results, k and query_info
FuseCalled ==
    /\ ~lastFuse.called
    /\ \E d \in ResultLists(DenseScores), s \in ResultLists(SparseScores),
          k \in 0..MaxK, q \in QueryInfos : Fuse(d, s, k, q)

NextFuse ==
    \/ \E strategy \in Strategies : SwitchStrategy(strategy)
    \/ FuseCalled
    \/ FuseConsumed

\* C22: a fuse call returns at most k entries, and every returned id occurs
\* in the dense list or in the sparse list.
C22_FuseReturnsTopK ==
    lastFuse.called =>
        /\ lastFuse.outcome = "returned"
        /\ Len(lastFuse.out) <= lastFuse.k
        /\ \A i \in DOMAIN lastFuse.out :
              lastFuse.out[i] \in IdsOf(lastFuse.dense) \cup IdsOf(lastFuse.sparse)

\* the distinct ids that the dense hits kept by the cascade and all the
\* sparse results supply
CascadeSupply(d, s, k) ==
    (IdsOf(d) \cap IdsOf(FirstK(s, k * 2))) \cup IdsOf(s)

\* C23: with strategy cascade and sparse results, the output is shorter than
\* k only when the kept dense hits and all sparse results together supply
\* fewer than k distinct ids.
C23_CascadePads ==
    (/\ lastFuse.called /\ lastFuse.before.strategy = "cascade"
     /\ lastFuse.sparse # <<>>
     /\ Len(lastFuse.out) < lastFuse.k)
    => Cardinality(CascadeSupply(lastFuse.dense, lastFuse.sparse, lastFuse.k))
           < lastFuse.k

\* C24: a fuse call leaves the fuser's strategy and parameters as they were.
C24_FuseIsPure ==
    [][(~lastFuse.called /\ lastFuse'.called) => fuser' = fuser]_vars

(***************************************************************************)
(*                      RecallEngine._hybrid_search                        *)
(* One hybrid recall: the two searches run under asyncio.gather, each      *)
(* returns a list or raises, and the lists go through the fuser.           *)
(***************************************************************************)

\* a search that raised
Raises == [raised |-> TRUE, results |-> <<>>]

\* what a search hands to gather: a list, or the exception it raised
SearchOutcomes(scores) ==
    {[raised |-> FALSE, results |-> l] : l \in ResultLists(scores)} \cup {Raises}

\* recall_engine.py:144-156  an exception returned by gather becomes []
OrEmpty(results) == IF results.raised THEN <<>> ELSE results.results

NoHybrid == [called |-> FALSE, strategy |-> "none", denseFailed |-> FALSE,
             sparseFailed |-> FALSE, dense |-> <<>>, sparse |-> <<>>,
             nowRaised |-> FALSE, outcome |-> "none", ids |-> {}]

InitHybrid == hybrid = NoHybrid

\* recall_engine.py:158-193  after the exceptions are replaced: [] when both
\* lists are empty, else the fused list, turned into Results and reranked;
\* any exception on the way gives [].  The rerank reorders the results, so
\* the result is kept as the set of its ids.
HybridResult(f, cfg, d, s, k, q, nowRaises) ==
    IF d = <<>> /\ s = <<>>
    THEN [outcome |-> "returned", ids |-> {}]
    ELSE LET r == FuseOf(f, cfg, d, s, k, q)
         IN CASE r.outcome = "hangs" -> [outcome |-> "hangs", ids |-> {}]
              [] r.outcome = "raised" -> [outcome |-> "returned", ids |-> {}]
              [] nowRaises -> [outcome |-> "returned", ids |-> {}]
              [] OTHER -> [outcome |-> "returned",
                           ids |-> {r.out[i] : i \in DOMAIN r.out}]

\* recall_engine.py:112-193  _hybrid_search(context, query, ..., k, query_info)
\* with recall_strategy "weighted"; nowRaises: get_now_datetime(context)
\* raises in the rerank
HybridSearch(dense_results, sparse_results, q, nowRaises) ==
    /\ LET d == OrEmpty(dense_results)
           s == OrEmpty(sparse_results)
           r == HybridResult(fuser, fusionCfg, d, s, top_k, q, nowRaises)
       IN /\ hybrid' = [called |-> TRUE, strategy |-> fuser.strategy,
                        denseFailed |-> dense_results.raised,
                        sparseFailed |-> sparse_results.raised,
                        dense |-> d, sparse |-> s,
                        nowRaised |-> nowRaises /\ (d # <<>> \/ s # <<>>),
                        outcome |-> r.outcome, ids |-> r.ids]
          /\ fuser' = IF d = <<>> /\ s = <<>> THEN fuser ELSE FuserAfter(fuser, q)
    /\ UNCHANGED <<fusionCfg, lastCmd, lastResponse>>
    /\ UNCHANGED notHybrid

\* a recall in hybrid mode
HybridCalled ==
    /\ ~hybrid.called
    /\ \E dense_results \in SearchOutcomes(DenseScores),
          sparse_results \in SearchOutcomes(SparseScores),
          q \in QueryInfos, nowRaises \in BOOLEAN :
            HybridSearch(dense_results, sparse_results, q, nowRaises)

\* recall() has handed the list to its caller
HybridReturned ==
    /\ hybrid.called
    /\ hybrid.outcome = "returned"
    /\ hybrid' = NoHybrid
    /\ UNCHANGED fusionVars
    /\ UNCHANGED notHybrid

\* fusion_handler.py  manage_fusion_strategy(strategy) between two recalls
StrategySet(strategy) ==
    /\ ~hybrid.called
    /\ ManageFusionStrategy([strategy |-> strategy, key |-> "",
                             value |-> [kind |-> "nan", n |-> 0]])

NextHybrid ==
    \/ \E strategy \in Strategies : StrategySet(strategy)
    \/ HybridCalled
    \/ HybridReturned

\* C27: a hybrid recall in which exactly one of the two searches raised and
\* the other one returned results comes back with results: it neither hangs
\* nor returns the empty list.
C27_OneBranchSuffices ==
    (/\ hybrid.called
     /\ hybrid.denseFailed # hybrid.sparseFailed
     /\ (hybrid.dense # <<>> \/ hybrid.sparse # <<>>)
     /\ ~hybrid.nowRaised)
        => /\ hybrid.outcome = "returned"
           /\ hybrid.ids # {}

(***************************************************************************)
(*          LivingMemoryPlugin start-up and the search_mode command        *)
(***************************************************************************)

\* config_validator.py:22  pattern of retrieval_mode
RetrievalModes == {"hybrid", "dense", "sparse"}

\* what an administrator may type after /lmem search_mode
ModeWords == RetrievalModes \cup {"fuzzy"}

\* The configurations the host may hand to the plugin: recall_engine.top_k,
\* recall_engine.retrieval_mode and sparse_retriever.enabled.
UserConfigs ==
    [top_k : {0, 5, 51}, retrieval_mode : ModeWords, sparse_enabled : BOOLEAN]

\* config_validator.py:139-148  get_default_config()
DefaultConfig == [top_k |-> 5, retrieval_mode |-> "hybrid", sparse_enabled |-> TRUE]

\* config_validator.py:20-22, 122-136  validate_config: the schema's range of
\* top_k and pattern of retrieval_mode
Validates(config) ==
    /\ config.top_k >= 1 /\ config.top_k <= 50
    /\ config.retrieval_mode \in RetrievalModes

NoEngine == "none"     \* self.recall_engine is None

NoModeCmd == [called |-> FALSE, by |-> "none", mode |-> "none",
              reply |-> "none", before |-> NoEngine, after |-> NoEngine]

NoRecallRun == [called |-> FALSE, path |-> "none"]

InitStartup ==
    /\ startup = [pc |-> "new", config |-> DefaultConfig, rejected |-> FALSE,
                  retrieval_mode |-> NoEngine, sparse_retriever |-> FALSE]
    /\ modeCmd = NoModeCmd
    /\ lastRun = NoRecallRun

\* main.py:104-142  __init__(context, config): the configuration is
\* validated; one that fails is logged and replaced by the defaults; the
\* initialization task is created either way.
Construct(config) ==
    /\ startup.pc = "new"
    /\ startup' = [startup EXCEPT
                      !.pc = "initializing",
                      !.config = IF Validates(config) THEN config ELSE DefaultConfig,
                      !.rejected = ~Validates(config)]
    /\ UNCHANGED <<modeCmd, lastRun>>
    /\ UNCHANGED notStartup

\* main.py:144-202  _initialize_plugin: without providers it returns, an
\* exception ends it, otherwise the sparse retriever (if enabled) and the
\* engines are created from the configuration and the forgetting agent starts.
InitializeEngines(providers, raises) ==
    /\ startup.pc = "initializing"
    /\ startup' =
          IF ~providers THEN [startup EXCEPT !.pc = "stopped"]
          ELSE IF raises THEN [startup EXCEPT !.pc = "failed"]
          ELSE [startup EXCEPT
                  !.pc = "ready",
                  !.retrieval_mode = startup.config.retrieval_mode,
                  !.sparse_retriever = startup.config.sparse_enabled]
    /\ UNCHANGED <<modeCmd, lastRun>>
    /\ UNCHANGED notStartup

\* main.py:532-555  /lmem search_mode <mode>
LmemSearchMode(mode) ==
    /\ startup.pc # "new"
    /\ LET reply == IF mode \notin RetrievalModes THEN "invalid"
                    ELSE IF startup.retrieval_mode = NoEngine THEN "uninitialized"
                    ELSE "ok"
       IN /\ modeCmd' = [called |-> TRUE, by |-> "command", mode |-> mode,
                         reply |-> reply, before |-> startup.retrieval_mode,
                         after |-> IF reply = "ok" THEN mode
                                   ELSE startup.retrieval_mode]
          /\ startup' = IF reply = "ok"
                        THEN [startup EXCEPT !.retrieval_mode = mode]
                        ELSE startup
    /\ lastRun' = NoRecallRun
    /\ UNCHANGED notStartup

\* admin_handler.py:64-72  AdminHandler.set_search_mode(mode)
SetSearchMode(mode) ==
    /\ startup.pc # "new"
    /\ modeCmd' = [called |-> TRUE, by |-> "handler", mode |-> mode,
                   reply |-> IF mode \in RetrievalModes THEN "ok" ELSE "invalid",
                   before |-> startup.retrieval_mode,
                   after |-> startup.retrieval_mode]
    /\ lastRun' = NoRecallRun
    /\ UNCHANGED startup
    /\ UNCHANGED notStartup

\* recall_engine.py:72-99  a recall by the initialized plugin takes the
\* branch its retrieval_mode and sparse retriever select
RecallRuns ==
    /\ startup.pc = "ready"
    /\ ~lastRun.called
    /\ lastRun' = [called |-> TRUE,
                   path |-> SearchPath(startup.retrieval_mode,
                                       startup.sparse_retriever)]
    /\ UNCHANGED <<startup, modeCmd>>
    /\ UNCHANGED notStartup

NextStartup ==
    \/ \E config \in UserConfigs : Construct(config)
    \/ \E providers \in BOOLEAN, raises \in BOOLEAN :
          InitializeEngines(providers, raises)
    \/ \E mode \in ModeWords : LmemSearchMode(mode)
    \/ \E mode \in ModeWords : SetSearchMode(mode)
    \/ RecallRuns

\* C29: a plugin whose configuration failed validation does not get as far
\* as initialized engines.
C29_InvalidConfigIsFatal ==
    startup.rejected => startup.pc # "ready"

\* C30: a search_mode command with one of the three modes reports success
\* and a recall made after it runs in that mode; with any other word it is
\* rejected and the retrieval mode stays what it was.
C30_SearchModeApplies ==
    modeCmd.called =>
        IF modeCmd.mode \in RetrievalModes
        THEN /\ modeCmd.reply = "ok"
             /\ lastRun.called => lastRun.path = modeCmd.mode
        ELSE /\ modeCmd.reply = "invalid"
             /\ modeCmd.after = modeCmd.before

(***************************************************************************)
(*                 MemoryHandler.edit_memory / lmem_edit                   *)
(* Importance is counted in tenths: 5 is 0.5.                              *)
(***************************************************************************)

\* memory_handler.py:52
valid_types == {"FACT", "PREFERENCE", "GOAL", "OPINION", "RELATIONSHIP", "OTHER"}

\* memory_handler.py:57
valid_statuses == {"active", "archived", "deleted"}

\* the field words tried
EditFields == {"content", "importance", "type", "status", "colour"}

\* The value texts tried: a decimal (n tenths), the text "nan", which
\* float() turns into a number that compares false with everything, and
\* other words.
EditTokens ==
    {[kind |-> "dec", text |-> "", n |-> n] : n \in {-1, 0, 5, 10, 11}}
        \cup {[kind |-> "nan", text |-> "nan", n |-> 0]}
        \cup {[kind |-> "word", text |-> w, n |-> 0] :
                 w \in {"FACT", "OTHER", "active", "deleted", "bogus"}}

\* An importance check that lets every number through: the variant of
\* ImportanceAccepted that C32 has to tell apart from the code.
ImportanceUnchecked(value) == value.kind \in {"dec", "nan"}

\* memory_handler.py:46-48  float(value) returns and 0.0 <= it <= 1.0
ImportanceAccepted(value) ==
    value.kind = "dec" /\ 0 <= value.n /\ value.n <= 10

\* memory_handler.py:41-62  the error response of the parsing stage, or
\* "none" when the edit goes on to update_memory
EditError(field, value) ==
    CASE field = "content" -> "none"
      [] field = "importance" ->
            IF value.kind = "word" THEN "importance_not_a_number"
            ELSE IF ImportanceAccepted(value) THEN "none"
            ELSE "importance_out_of_range"
      [] field = "type" ->
            IF value.text \in valid_types THEN "none" ELSE "invalid_type"
      [] field = "status" ->
            IF value.text \in valid_statuses THEN "none" ELSE "invalid_status"
      [] OTHER -> "unknown_field"

\* faiss_manager.py:383-532  what a successful update_memory leaves stored
Edit(rec, field, value) ==
    CASE field = "content" -> [rec EXCEPT !.content = value]
      [] field = "importance" -> [rec EXCEPT !.importance = value.n]
      [] field = "type" -> [rec EXCEPT !.event_type = value.text]
      [] OTHER -> [rec EXCEPT !.status = value.text]

InitEdit ==
    /\ edited = [content |-> [kind |-> "word", text |-> "bogus", n |-> 0],
                 importance |-> 5, event_type |-> "FACT", status |-> "active"]
    /\ lastEdit = [field |-> "none", value |-> [kind |-> "nan", text |-> "nan", n |-> 0],
                   reply |-> "none", called |-> FALSE]

\* memory_handler.py:28-92 (and main.py:592-657)  edit_memory(memory_id,
\* field, value, reason); updateOk: update_memory reports success
EditMemory(field, value, updateOk) ==
    /\ LET error == EditError(field, value)
       IN IF error # "none"
          THEN /\ lastEdit' = [field |-> field, value |-> value,
                               reply |-> error, called |-> FALSE]
               /\ edited' = edited
          ELSE /\ lastEdit' = [field |-> field, value |-> value,
                               reply |-> IF updateOk THEN "ok" ELSE "update_failed",
                               called |-> TRUE]
               /\ edited' = IF updateOk THEN Edit(edited, field, value) ELSE edited
    /\ UNCHANGED notEdit

NextEdit ==
    \E field \in EditFields, value \in EditTokens, updateOk \in BOOLEAN :
        EditMemory(field, value, updateOk)

\* the message an edit of that kind is to be rejected with, "none" if it
\* is a proper edit
Refusal(e) ==
    CASE e.field \notin {"content", "importance", "type", "status"} -> "unknown_field"
      [] e.field = "importance" /\ e.value.kind = "word" -> "importance_not_a_number"
      [] e.field = "importance"
            /\ ~(e.value.kind = "dec" /\ e.value.n \in 0..10) -> "importance_out_of_range"
      [] e.field = "type" /\ e.value.text \notin valid_types -> "invalid_type"
      [] e.field = "status"
            /\ e.value.text \notin {"active", "archived", "deleted"} -> "invalid_status"
      [] OTHER -> "none"

\* C32: an edit with an unknown field, an importance that is no number or
\* outside [0, 1], an event type outside the allowed set or a status outside
\* {active, archived, deleted} is answered with the message of its kind,
\* update_memory is not called and the record does not change.
C32_BadEditRejected ==
    [][Refusal(lastEdit') # "none" =>
          /\ lastEdit'.reply = Refusal(lastEdit')
          /\ ~lastEdit'.called
          /\ edited' = edited]_editVars

\* importance 1.1 has been refused
C32_Witness ==
    /\ lastEdit.field = "importance"
    /\ lastEdit.value = [kind |-> "dec", text |-> "", n |-> 11]
    /\ lastEdit.reply = "importance_out_of_range"
    /\ ~lastEdit.called

(***************************************************************************)
(*                 FTSManager.search, SparseRetriever.search               *)
(* A normalized score is the fraction num/den.                             *)
(***************************************************************************)

MaxSparseId == 3                      \* documents in the FTS index
SparseIds == 1..MaxSparseId
NoMatch == 0                          \* the row does not MATCH the query
\* bm25() of SQLite's FTS5 for a matching row: the BM25 relevance multiplied
\* by -1, so that a better match has the numerically lower value
Bm25Scores == {-3, -2, -1}

NoSparseRun == [called |-> FALSE, enabled |-> FALSE, scores |-> [d \in SparseIds |-> NoMatch],
                passes |-> {}, limit |-> 0, raised |-> FALSE, out |-> <<>>]

InitSparse == sparseRun = NoSparseRun

\* sparse_retriever.py:98-115  FTSManager.search: the matching rows,
\* ORDER BY score (ascending; rows of equal score in any order), LIMIT ?
FTSSearch(scores, limit) ==
    LET matching == {d \in SparseIds : scores[d] # NoMatch}
        n == IF limit < Cardinality(matching) THEN limit ELSE Cardinality(matching)
    IN {q \in [1..n -> matching] :
          /\ \A i \in 1..n, j \in 1..n : i < j => q[i] # q[j] /\ scores[q[i]] <= scores[q[j]]
          /\ \A d \in matching :
                (\A i \in 1..n : q[i] # d) => \A i \in 1..n : scores[q[i]] <= scores[d]}

\* sparse_retriever.py:224-236  the rows whose document passes the filters
filtered_results(fts_results, passes) == SelectSeq(fts_results, LAMBDA d : d \in passes)

\* sparse_retriever.py:241-250  result.score = (score - min_score) / score_range
Normalized(kept, scores) ==
    LET raw == {scores[kept[i]] : i \in 1..Len(kept)}
        max_score == CHOOSE x \in raw : \A y \in raw : y <= x
        min_score == CHOOSE x \in raw : \A y \in raw : x <= y
        score_range == IF max_score # min_score THEN max_score - min_score ELSE 1
    IN [i \in 1..Len(kept) |->
          [doc_id |-> kept[i],
           score |-> [num |-> scores[kept[i]] - min_score, den |-> score_range]]]

\* sparse_retriever.py:187-262  SparseRetriever.search: [] when disabled,
\* when nothing matches and when anything raises; otherwise the filtered
\* rows in the order of the FTS search, scores normalized.  One search is
\* followed from the initial state.
SparseRetrieverSearch(enabled, scores, passes, limit, raised) ==
    /\ ~sparseRun.called
    /\ \E fts_results \in FTSSearch(scores, limit) :
       LET kept == filtered_results(fts_results, passes)
       IN /\ sparseRun' = [called |-> TRUE, enabled |-> enabled, scores |-> scores,
                            passes |-> passes, limit |-> limit, raised |-> raised,
                            out |-> IF ~enabled \/ raised \/ kept = <<>> THEN <<>>
                                    ELSE Normalized(kept, scores)]
          /\ UNCHANGED notSparse

NextSparse ==
    \E enabled \in BOOLEAN, scores \in [SparseIds -> Bm25Scores \cup {NoMatch}],
       passes \in SUBSET SparseIds, limit \in 1..MaxSparseId, raised \in BOOLEAN :
          SparseRetrieverSearch(enabled, scores, passes, limit, raised)

\* C38: a sparse search returns its results best match first, each with a
\* normalized score in [0,1], the scores not increasing along the returned
\* order, so that the best BM25 match carries the highest score.
C38_BestMatchHighestScore ==
    LET out == sparseRun.out
    IN /\ \A i \in 1..Len(out) :
             0 <= out[i].score.num /\ out[i].score.num <= out[i].score.den
       /\ \A i \in 1..Len(out), j \in 1..Len(out) :
             i < j => /\ sparseRun.scores[out[i].doc_id] <= sparseRun.scores[out[j].doc_id]
                      /\ out[i].score.num >= out[j].score.num

Init ==
    /\ InitForget /\ InitSession /\ InitFusion /\ InitStore /\ InitRetry
    /\ InitPlugin /\ InitPrune /\ InitRecall /\ InitMeta /\ InitFuse
    /\ InitHybrid /\ InitStartup /\ InitEdit /\ InitSparse

SpecForget == Init /\ [][NextForget]_vars

SpecSession == Init /\ [][NextSession]_vars

SpecFusion == Init /\ [][NextFusion]_vars

SpecStore == Init /\ [][NextStore]_vars

SpecRetry == Init /\ [][NextRetry]_vars

SpecPlugin == Init /\ [][NextPlugin]_vars

SpecPrune == Init /\ [][NextPrune]_vars

SpecRecall == Init /\ [][NextRecall]_vars

SpecMeta == Init /\ [][NextMeta]_vars

SpecFuse == Init /\ [][NextFuse]_vars

SpecHybrid == Init /\ [][NextHybrid]_vars

SpecStartup == Init /\ [][NextStartup]_vars

SpecEdit == Init /\ [][NextEdit]_vars

SpecSparse == Init /\ [][NextSparse]_vars

\* C1: while a manual run is in flight, a second trigger_manual_run returns
\* at once with success=false ("busy") and starts no prune of its own.
C1_SecondTriggerIsBusy ==
    \A t \in Manual :
        overlapped[t] =>
            /\ fpc[t] = "idle"
            /\ fresult[t] = "busy"
            /\ ~pruned[t]

\* C2: forgetting runs are serialized: at most one execution of the prune
\* pass is in progress at any time, whoever started it.
C2_PrunesSerialized ==
    Cardinality({t \in Tasks : InPrune(t)}) <= 1

\* task u calls trigger_manual_run in this step
Triggers(u) ==
    /\ fpc[u] = "idle"
    /\ <<fpc[u], fresult[u], pruned[u], overlapped[u]>>' #
           <<fpc[u], fresult[u], pruned[u], overlapped[u]>>

Storable(c) ==
    /\ c.strategy \in Strategies
    /\ c.key \in valid_params
    /\ c.key \in strategy_params[c.strategy]
    /\ IF c.key = "rrf_k"
       THEN c.value.kind = "int" /\ c.value.n >= 1 /\ c.value.n <= 1000
       ELSE \/ c.value.kind = "dec" /\ c.value.n >= 0 /\ c.value.n <= 10
            \/ c.value.kind = "int" /\ c.value.n \in {0, 1}

\* C31: a fusion command whose parameter is unknown, not used by the
\* strategy, out of range or no number is rejected, and a command changes a
\* stored parameter only if it names that parameter and passes all four
\* tests.
C31_OnlyValidParamsStored ==
    [][/\ (lastCmd'.strategy \in Strategies /\ lastCmd'.key # ""
            /\ ~Storable(lastCmd')) => lastResponse' = "rejected"
       /\ \A key \in valid_params :
             fusionCfg'[key] # fusionCfg[key] =>
                 /\ lastCmd'.key = key
                 /\ Storable(lastCmd')
                 /\ lastResponse' = "ok"]_fusionVars

\* dense_weight=0.4 was offered to rrf, which has no such parameter, and
\* rejected with the stored weight as it was
C31_Witness ==
    /\ lastCmd = [strategy |-> "rrf", key |-> "dense_weight",
                  value |-> [kind |-> "dec", n |-> 4]]
    /\ lastResponse = "rejected"
    /\ fusionCfg["dense_weight"] = 7

\* C33: every fuse call comes to an end, whatever the strategy, the two
\* lists and k: none is left in a loop that makes no progress.
C33_FuseTerminates ==
    lastFuse.called => lastFuse.outcome # "hangs"

\* C34: an update_memory call that began its transaction and has returned,
\* with success or with failure, has closed that transaction by commit or
\* rollback.
C34_UpdateClosesTransaction ==
    (op.pc = "idle" /\ op.name = "update" /\ op.outcome \in {"ok", "failed"})
        => ~txnOpen


\* C35: a hook whose wait on the initialization gate timed out leaves the
\* initialization task running: the task is never cancelled by a hook, so
\* that it can still complete and let every later hook through the gate.
C35_TimeoutKeepsInitialization ==
    [][(\E h \in HookIds : hooks[h].pc = "wait" /\ hooks'[h].pc = "none"
                              /\ initialization_task = "running")
          => initialization_task' = "running"]_pluginVars


SpecSessionUse == Init /\ [][NextSessionUse]_vars

\* C36: get_session(s) for a session that exists and was last touched no
\* longer than session_ttl ago hands back that session as it was, history
\* and round_count intact; the size cap never evicts the requested session.
C36_LiveSessionKept ==
    [][\A s \in SessionIds :
          (/\ s \in DOMAIN sessions
           /\ now - accessTimes[s] <= SessionTtl
           /\ GetSession(s))
          => sessions'[s] = sessions[s]]_sessionVars


\* The turns of a sequence of turns, by number.
TurnNos(q) == {q[i].no : i \in 1..Len(q)}

\* The places that hold turn number n: current histories, tasks made from a
\* snapshot, and hooks holding a snapshot they have not launched yet.
Places(n) ==
    Cardinality({s \in DOMAIN sessions : n \in TurnNos(sessions[s].history)})
      + Cardinality({i \in 1..Len(launched) : n \in TurnNos(launched[i].history)})
      + Cardinality({h \in HookIds : /\ hooks[h].pc = "persona"
                                     /\ n \in TurnNos(hooks[h].snapshot.history)})

\* The step's get_session evicts the session whose history holds turn n.
Evicts(n) ==
    /\ sessions' # sessions
    /\ \E s \in CleanupRemoves(sessions, accessTimes, sessOrder, now) :
          n \in TurnNos(sessions[s].history)

====
